---- MODULE Spec2Model ----
(***************************************************************************)
(* Model of the document-claim auditing pipeline (pipeline.py), the API    *)
(* server's trust scorer and pattern-based detector                        *)
(* (robust_professional_main.py) and the university review analyzer        *)
(* (university_reviews.py).                                                 *)
(*                                                                         *)
(* The components share no state, so each has its own specification over   *)
(* its own variables; the variables of the other components stay at their  *)
(* initial values.                                                         *)
(*   SpecTrust    - enhance_pipeline_claim_with_trust_score,               *)
(*                  calculate_sophisticated_trust_score,                   *)
(*                  calculate_pattern_based_trust_score                    *)
(*   SpecPipeline - classify / retrieve / evaluate of one claim            *)
(*   SpecReviews  - UniversityReviewAnalyzer.search_university_reviews     *)
(*   SpecDetector - use_enhanced_pattern_analysis                          *)
(*   SpecRun      - run_pipeline                                           *)
(*   SpecApi      - the server's start and one POST /analyze               *)
(*   SpecExtract  - extract_claims_openrouter                              *)
(*   SpecLimiter  - rate_limit of the review analyzer, one thread          *)
(*   SpecShared   - rate_limit of the review analyzer, two threads         *)
(***************************************************************************)
EXTENDS Integers, Sequences, FiniteSets, TLC

VARIABLES
    \* ---- trust scorer (robust_professional_main.py) ----
    tpc,          \* position inside the scorer
    evidence,     \* original_claim_data['evidence'], once read
    none_text,    \* evidence_summary or verdict_reasoning of the claim is None
    claim_long,   \* len(claim['claim_text']) > 100, once read
    score,        \* the local `score`
    breakdown,    \* the five sub-scores computed so far, by name
    trust_score,  \* value returned by calculate_*_trust_score
    trustScore,   \* the 'trustScore' field of the claim handed back
    \* ---- one claim going through run_pipeline's loop body (pipeline.py) ----
    ppc,             \* "extracted", "classified", "retrieved", "evaluated", "failed"
    claim,           \* claim_data, a dict: field name -> value
    evidence_chunks, \* the local evidence corpus loaded at import
    llm_response,    \* .content of the last model response
    web_results,     \* what search_tool.run gave for each query, in order
    llm_calls,       \* number of chain.invoke calls made for the claim
    web_searches,    \* number of search_tool.run calls made for the claim
    \* ---- one call of search_university_reviews (university_reviews.py) ----
    WEB_SEARCH_AVAILABLE, \* the module flag set by the imports
    rpc,             \* position inside search_university_reviews
    next_query,      \* index of the query the current phase's loop is at
    results,         \* the `results` dict being accumulated
    returned,        \* the dict search_university_reviews returned
    \* ---- one call of use_enhanced_pattern_analysis (robust_professional_main.py) ----
    dpc,             \* position inside use_enhanced_pattern_analysis
    content,         \* the document text
    filename,        \* the document's file name
    sentences,       \* the filtered, stripped sentences
    next_sentence,   \* the loop index i
    claims,          \* the local list `claims`
    \* ---- one call of run_pipeline (pipeline.py) ----
    run_pc,          \* position inside run_pipeline
    file_path,       \* what the file_path argument refers to
    doc_chunks,      \* the chunks the document was split into
    extracted,       \* the claims extract_claims_openrouter returned
    processed_claims, \* the local list `processed_claims`
    report_saved,    \* the report file was written
    run_result,      \* what run_pipeline returned
    \* ---- the API server and one POST /analyze (robust_professional_main.py) ----
    server,          \* "importing", "running", or "crashed" when the module import raised
    FULL_PIPELINE_AVAILABLE, \* the module flag set by `import pipeline`
    PDF_AVAILABLE,   \* the module flag set by `import pypdf`
    apc,             \* position inside analyze
    request,         \* the FileAnalysisRequest
    analyze_content, \* the local `content` of analyze
    extraction_calls, \* number of robust_claim_extraction calls made
    analyze_claims,  \* the local `claims` of analyze
    http_response,   \* the HTTP response
    \* ---- one call of extract_claims_openrouter (pipeline.py) ----
    xpc,             \* position inside extract_claims_openrouter
    chunks_given,    \* the doc_chunks argument
    chunk_i,         \* number of chunks the loop has gone through
    model_outcomes,  \* what the model call did for each chunk so far
    claims_so_far,   \* the local list `all_claims`
    \* ---- rate_limit of the shared analyzer (university_reviews.py) ----
    now,               \* time.time(), in seconds
    last_request_time, \* self.last_request_time
    lpc,               \* each caller's position around rate_limit
    call_site,         \* the network call each caller is about to make
    current_time,      \* each caller's local current_time
    seen_last,         \* the self.last_request_time each caller read
    read_no,           \* number of writes of last_request_time before that read
    writes,            \* number of writes of last_request_time so far
    issued             \* the outbound calls issued so far, in order

trustVars == <<tpc, evidence, none_text, claim_long, score, breakdown, trust_score, trustScore>>

pipeVars == <<ppc, claim, evidence_chunks, llm_response, web_results, llm_calls, web_searches>>

reviewVars == <<WEB_SEARCH_AVAILABLE, rpc, next_query, results, returned>>

detectorVars == <<dpc, content, filename, sentences, next_sentence, claims>>

runVars == <<run_pc, file_path, doc_chunks, extracted, processed_claims, report_saved,
             run_result>>

apiVars == <<server, FULL_PIPELINE_AVAILABLE, PDF_AVAILABLE, apc, request, analyze_content,
             extraction_calls, analyze_claims, http_response>>

extractVars == <<xpc, chunks_given, chunk_i, model_outcomes, claims_so_far>>

limiterVars == <<now, last_request_time, lpc, call_site, current_time, seen_last, read_no,
                 writes, issued>>

vars == <<trustVars, pipeVars, reviewVars, detectorVars, runVars, apiVars, extractVars,
          limiterVars>>

\* what a step of one component leaves alone
notTrust ==
    <<pipeVars, reviewVars, detectorVars, runVars, apiVars, extractVars, limiterVars>>
notPipeline ==
    <<trustVars, reviewVars, detectorVars, runVars, apiVars, extractVars, limiterVars>>
notReviews ==
    <<trustVars, pipeVars, detectorVars, runVars, apiVars, extractVars, limiterVars>>
notDetector ==
    <<trustVars, pipeVars, reviewVars, runVars, apiVars, extractVars, limiterVars>>
notRun ==
    <<trustVars, pipeVars, reviewVars, detectorVars, apiVars, extractVars, limiterVars>>
notApi ==
    <<trustVars, pipeVars, reviewVars, detectorVars, runVars, extractVars, limiterVars>>
notExtract ==
    <<trustVars, pipeVars, reviewVars, detectorVars, runVars, apiVars, limiterVars>>
notLimiter ==
    <<trustVars, pipeVars, reviewVars, detectorVars, runVars, apiVars, extractVars>>

None == "None"

Min(a, b) == IF a < b THEN a ELSE b
Max(a, b) == IF a > b THEN a ELSE b

RECURSIVE SumSeq(_)
SumSeq(s) == IF s = <<>> THEN 0 ELSE Head(s) + SumSeq(Tail(s))

\* number of elements of the list s that belong to T
CountIn(s, T) == Cardinality({i \in DOMAIN s : s[i] \in T})

(***************************************************************************)
(* Text.  A Python str is the sequence of its characters.                  *)
(***************************************************************************)

lower_table ==
    ("A" :> "a") @@ ("B" :> "b") @@ ("C" :> "c") @@ ("D" :> "d") @@ ("E" :> "e") @@ ("F" :> "f") @@ ("G" :> "g") @@ ("H" :> "h") @@ ("I" :> "i") @@ ("J" :> "j") @@ ("K" :> "k") @@ ("L" :> "l") @@ ("M" :> "m")
    @@ ("N" :> "n") @@ ("O" :> "o") @@ ("P" :> "p") @@ ("Q" :> "q") @@ ("R" :> "r") @@ ("S" :> "s") @@ ("T" :> "t") @@ ("U" :> "u") @@ ("V" :> "v") @@ ("W" :> "w") @@ ("X" :> "x") @@ ("Y" :> "y") @@ ("Z" :> "z")

\* str.lower()
Lower(s) == [i \in DOMAIN s |-> IF s[i] \in DOMAIN lower_table THEN lower_table[s[i]] ELSE s[i]]

Whitespace == {" ", "\t", "\n"}

RECURSIVE LStrip(_)
LStrip(s) == IF s # <<>> /\ Head(s) \in Whitespace THEN LStrip(Tail(s)) ELSE s

RECURSIVE RStrip(_)
RStrip(s) ==
    IF s # <<>> /\ s[Len(s)] \in Whitespace THEN RStrip(SubSeq(s, 1, Len(s) - 1)) ELSE s

\* str.strip()
Strip(s) == RStrip(LStrip(s))

\* the literal lit occurs in s starting at index i
MatchAt(s, i, lit) ==
    /\ i >= 1
    /\ i + Len(lit) - 1 <= Len(s)
    /\ \A k \in 1..Len(lit) : s[i + k - 1] = lit[k]

\* lit in s
Contains(s, lit) == \E i \in 1..(Len(s) - Len(lit) + 1) : MatchAt(s, i, lit)

(***************************************************************************)
(* Trust scorer                                                            *)
(***************************************************************************)

\* The strings the scorer reads are represented by the outcome of each test
\* the code applies to them (a regex hit, a keyword hit, a length threshold).

\* assess_claim_specificity's list of specific terms
specific_terms ==
    {"increased", "decreased", "improved", "reduced", "achieved", "exceeded", "reached"}

\* a claim text: which quantitative regexes hit, how many specific terms it
\* contains, whether it is longer than 100 characters
ClaimTexts ==
    [pct : BOOLEAN, money : BOOLEAN, multiplier : BOOLEAN, year : BOOLEAN,
     terms : 0..Cardinality(specific_terms), long : BOOLEAN]

\* evidence items: a dict with a source and a relevance score, or something
\* that is not a dict.  quality: the source contains one of 'government',
\* 'academic', 'official', 'sec', 'epa'.
EvidencePool ==
    << [dict |-> FALSE, source |-> "",                     quality |-> FALSE, relevance_score |-> 0],
       [dict |-> TRUE,  source |-> "Web",                  quality |-> FALSE, relevance_score |-> 0],
       [dict |-> TRUE,  source |-> "Web",                  quality |-> FALSE, relevance_score |-> 0],
       [dict |-> TRUE,  source |-> "evidence_paper_1.pdf", quality |-> FALSE, relevance_score |-> 71],
       [dict |-> TRUE,  source |-> "official filing",      quality |-> TRUE,  relevance_score |-> 70],
       [dict |-> TRUE,  source |-> "sec.gov",              quality |-> TRUE,  relevance_score |-> 92],
       [dict |-> TRUE,  source |-> "epa.gov",              quality |-> TRUE,  relevance_score |-> 95] >>

RECURSIVE SubSeqs(_)
\* every list obtained from s by leaving items out
SubSeqs(s) ==
    IF s = <<>> THEN {<<>>}
    ELSE LET rest == SubSeqs(Tail(s))
         IN  rest \cup {<<Head(s)>> \o r : r \in rest}

\* the values original_claim_data['evidence'] takes: a string, a list, or
\* anything else (a number, a dict, None)
EvidenceValues ==
    [kind : {"str"}, long : BOOLEAN, keyword : BOOLEAN]
    \cup {[kind |-> "list", items |-> l] : l \in SubSeqs(EvidencePool)}
    \cup {[kind |-> "other"]}

\* evidence_summary: None, or a string that is or is not longer than 150
SummaryValues == {None, "short", "long"}

\* the points assess_evidence_quality adds up before its cap
evidence_points(ev, evidence_summary) ==
    LET s1 == IF ev.kind = "str"
              THEN (IF ev.long THEN 10 ELSE 0) + (IF ev.keyword THEN 5 ELSE 0)
              ELSE IF ev.kind = "list" /\ Len(ev.items) > 0
              THEN Min(15, Len(ev.items) * 3)
                   + SumSeq([i \in DOMAIN ev.items |->
                        IF ev.items[i].dict
                        THEN (IF ev.items[i].quality THEN 3 ELSE 0)
                             + (IF ev.items[i].relevance_score > 70 THEN 2 ELSE 0)
                        ELSE 0])
              ELSE 0
        s2 == IF evidence_summary = "long" THEN 5 ELSE 0
    IN  s1 + s2

\* mutant: the final min(30, score) is dropped
assess_evidence_quality_nocap(ev, evidence_summary) ==
    evidence_points(ev, evidence_summary)

assess_evidence_quality(ev, evidence_summary) ==
    Min(30, evidence_points(ev, evidence_summary))

assess_claim_specificity(claim_text) ==
    Min(25,
        (IF claim_text.pct THEN 8 ELSE 0)
        + (IF claim_text.money THEN 8 ELSE 0)
        + (IF claim_text.multiplier THEN 6 ELSE 0)
        + (IF claim_text.year THEN 3 ELSE 0)
        + Min(5, claim_text.terms)
        + (IF claim_text.long THEN 3 ELSE 0))

Verdicts == {"Confirmed", "Supported", "Unverifiable", "Contradicted", "Unsupported"}

verdict_scores(verdict) ==
    CASE verdict = "Confirmed"    -> 20
      [] verdict = "Supported"    -> 15
      [] verdict = "Unverifiable" -> 8
      [] verdict = "Contradicted" -> 5
      [] verdict = "Unsupported"  -> 3
      [] OTHER                    -> 10

\* reasoning: [long: longer than 200 characters, keyword: contains one of
\* 'analysis', 'verification', 'cross-reference', 'validation']
assess_verdict_confidence(verdict, reasoning) ==
    Min(20, verdict_scores(verdict)
            + (IF reasoning.long THEN 2 ELSE 0)
            + (IF reasoning.keyword THEN 1 ELSE 0))

\* the distinct 'source' values of the dict items of the evidence list
unique_sources(ev) ==
    IF ev.kind = "list"
    THEN {ev.items[i].source : i \in {j \in DOMAIN ev.items : ev.items[j].dict}}
    ELSE {}

\* source: [cred: metadata source contains a high-credibility term,
\*          med: it contains one of 'report', 'filing', 'audit', 'statement']
assess_source_credibility(source, ev) ==
    Min(15,
        (IF source.cred THEN 8 ELSE IF source.med THEN 5 ELSE 2)
        + (IF ev.kind = "list" THEN Min(7, Cardinality(unique_sources(ev))) ELSE 0))

Categories == {"Financial", "Operational", "Legal & Compliance", "ESG"}

\* hits: [primary: the text contains one of the category's first term list,
\*        secondary: one of its second term list]
assess_category_specific_factors(category, hits) ==
    Min(10,
        IF category \in Categories
        THEN (IF hits.primary THEN 5 ELSE 0) + (IF hits.secondary THEN 3 ELSE 0)
        ELSE 0)

\* mutant: the lower bound of the clamp is dropped
final_score_nofloor(s) == Min(95, s)

\* final_score = max(15, min(95, score))
final_score(s) == Max(15, Min(95, s))

\* what search_web_evidence returns for a category, by source_type
search_web_evidence(category) ==
    CASE category = "Financial"          -> <<"Government", "Financial", "Industry">>
      [] category = "ESG"                -> <<"Government", "Non-profit", "Industry">>
      [] category = "Operational"        -> <<"Industry", "Non-profit", "Industry">>
      [] category = "Legal & Compliance" -> <<"Government", "Government", "Industry">>
      [] OTHER                           -> <<"Industry">>

\* the longest list enhance_claims_with_web_evidence collects: three queries
EvidenceSourcePool ==
    search_web_evidence("Legal & Compliance") \o search_web_evidence("Financial")
        \o search_web_evidence("Legal & Compliance")

credible_count(evidence_sources) ==
    CountIn(evidence_sources, {"Government", "Academic", "Financial"})

web_evidence_quality(evidence_sources) ==
    IF evidence_sources # <<>>
    THEN Min(20, Len(evidence_sources) * 4) + Min(10, credible_count(evidence_sources) * 2)
    ELSE 5

confidence_scores(confidence) ==
    CASE confidence = "high"   -> 15
      [] confidence = "medium" -> 10
      [] confidence = "low"    -> 5
      [] OTHER                 -> 10

\* texts: [summary: len(evidence_summary) > 100, reasoning: len(verdict_reasoning) > 150]
content_quality(long, texts) ==
    (IF long THEN 5 ELSE 0) + (IF texts.summary THEN 3 ELSE 0)
        + (IF texts.reasoning THEN 2 ELSE 0)

NoBreakdown == [k \in {} |-> 0]
\* the evidence has not been read, or is no longer read
NoEvidence == [kind |-> "unread"]

InitTrust ==
    /\ tpc = "idle"
    /\ evidence = NoEvidence
    /\ none_text = FALSE
    /\ claim_long = FALSE
    /\ score = 0
    /\ breakdown = NoBreakdown
    /\ trust_score = 0
    /\ trustScore = 0

\* the except branch of calculate_sophisticated_trust_score
SophisticatedDefault == 50
\* the except branch of calculate_pattern_based_trust_score
PatternDefault == 50
\* the except branch of enhance_pipeline_claim_with_trust_score
EnhanceDefault == 45

\* calculate_sophisticated_trust_score raises inside its try: return 50
SophisticatedRaises(textIsNone) ==
    /\ trust_score' = SophisticatedDefault
    /\ none_text' = textIsNone
    /\ tpc' = "enhance"
    /\ UNCHANGED <<evidence, claim_long, score, breakdown, trustScore>>

Record(name, v) ==
    /\ score' = score + v
    /\ breakdown' = breakdown @@ (name :> v)

\* Factor 1: assess_evidence_quality.  The claim is fixed for the call; each
\* of its fields is drawn when the code first reads it.
AssessEvidenceQuality ==
    /\ tpc = "idle"
    /\ \E ev \in EvidenceValues, es \in SummaryValues :
         IF es = None
         THEN SophisticatedRaises(TRUE)           \* len(None)
         ELSE /\ evidence' = ev
              /\ Record("evidence_quality", assess_evidence_quality(ev, es))
              /\ tpc' = "specificity"
              /\ UNCHANGED <<none_text, claim_long, trust_score, trustScore>>
    /\ UNCHANGED notTrust

\* Factor 2: assess_claim_specificity
AssessClaimSpecificity ==
    /\ tpc = "specificity"
    /\ \/ SophisticatedRaises(FALSE)             \* re.search on a non-string
       \/ \E text \in ClaimTexts :
            /\ Record("specificity", assess_claim_specificity(text))
            /\ tpc' = "verdict_confidence"
            /\ UNCHANGED <<evidence, none_text, claim_long, trust_score, trustScore>>
    /\ UNCHANGED notTrust

Reasonings == [long : BOOLEAN, keyword : BOOLEAN]

\* Factor 3: assess_verdict_confidence; the verdict is the mapped one
AssessVerdictConfidence ==
    /\ tpc = "verdict_confidence"
    /\ \/ SophisticatedRaises(TRUE)              \* len(None): reasoning is None
       \/ \E verdict \in Verdicts, reasoning \in Reasonings :
            /\ Record("verdict_confidence", assess_verdict_confidence(verdict, reasoning))
            /\ tpc' = "source_credibility"
            /\ UNCHANGED <<evidence, none_text, claim_long, trust_score, trustScore>>
    /\ UNCHANGED notTrust

SourceValues == [cred : BOOLEAN, med : BOOLEAN]

\* Factor 4: assess_source_credibility; the last reader of the evidence
AssessSourceCredibility ==
    /\ tpc = "source_credibility"
    /\ \/ SophisticatedRaises(FALSE)             \* metadata is not a dict
       \/ \E source \in SourceValues :
            /\ Record("source_credibility", assess_source_credibility(source, evidence))
            /\ evidence' = NoEvidence
            /\ tpc' = "category_bonus"
            /\ UNCHANGED <<none_text, claim_long, trust_score, trustScore>>
    /\ UNCHANGED notTrust

CategoryHits == [primary : BOOLEAN, secondary : BOOLEAN]

\* Factor 5: assess_category_specific_factors, then the clamp and the return
AssessCategoryAndReturn ==
    /\ tpc = "category_bonus"
    /\ \E category \in Categories, hits \in CategoryHits :
         LET v == assess_category_specific_factors(category, hits)
         IN  /\ Record("category_bonus", v)
             /\ trust_score' = final_score(score + v)
             /\ tpc' = "enhance"
             /\ UNCHANGED <<evidence, none_text, claim_long, trustScore>>
    /\ UNCHANGED notTrust

\* enhance_pipeline_claim_with_trust_score after the scorer returned: the two
\* text enhancements concatenate strings, which raises on None and lands in
\* the except branch that builds the fallback record
EnhanceReturn ==
    /\ tpc = "enhance"
    /\ trustScore' = IF none_text THEN EnhanceDefault ELSE trust_score
    /\ tpc' = "returned"
    /\ UNCHANGED <<evidence, none_text, claim_long, score, breakdown, trust_score>>
    /\ UNCHANGED notTrust

\* calculate_pattern_based_trust_score, Factor 1: web evidence quality
PatternEvidence ==
    /\ tpc = "idle"
    /\ \E evidence_sources \in SubSeqs(EvidenceSourcePool) :
         score' = score + web_evidence_quality(evidence_sources)
    /\ tpc' = "p_specificity"
    /\ UNCHANGED <<evidence, none_text, claim_long, breakdown, trust_score, trustScore>>
    /\ UNCHANGED notTrust

\* Factor 2: claim specificity
PatternSpecificity ==
    /\ tpc = "p_specificity"
    /\ \E text \in ClaimTexts :
         /\ score' = score + assess_claim_specificity(text)
         /\ claim_long' = text.long
    /\ tpc' = "p_verdict"
    /\ UNCHANGED <<evidence, none_text, breakdown, trust_score, trustScore>>
    /\ UNCHANGED notTrust

PatternRaises ==
    /\ trust_score' = PatternDefault
    /\ trustScore' = PatternDefault
    /\ tpc' = "returned"
    /\ UNCHANGED <<evidence, none_text, claim_long, score, breakdown>>

\* Factor 3: verdict confidence; claim['verdict'] raises when the key is absent
PatternVerdict ==
    /\ tpc = "p_verdict"
    /\ \E verdict \in Verdicts \cup {"Evaluation Error", None} :
         IF verdict = None
         THEN PatternRaises
         ELSE /\ score' = score + verdict_scores(verdict)
              /\ tpc' = "p_confidence"
              /\ UNCHANGED <<evidence, none_text, claim_long, breakdown, trust_score, trustScore>>
    /\ UNCHANGED notTrust

\* Factor 4: the confidence recorded in the metadata ('medium' when absent)
PatternConfidence ==
    /\ tpc = "p_confidence"
    /\ \E confidence \in {"high", "medium", "low", "unknown"} :
         score' = score + confidence_scores(confidence)
    /\ tpc' = "p_content"
    /\ UNCHANGED <<evidence, none_text, claim_long, breakdown, trust_score, trustScore>>
    /\ UNCHANGED notTrust

\* Factor 5: content quality, then the clamp, the return and the assignment
\* claim['trustScore'] = ... in enhance_claims_with_web_evidence
PatternContentAndReturn ==
    /\ tpc = "p_content"
    /\ \E texts \in [summary : BOOLEAN, reasoning : BOOLEAN] :
         LET s == score + content_quality(claim_long, texts)
         IN  /\ score' = s
             /\ trust_score' = final_score(s)
             /\ trustScore' = final_score(s)
    /\ tpc' = "returned"
    /\ UNCHANGED <<evidence, none_text, claim_long, breakdown>>
    /\ UNCHANGED notTrust

NextTrust ==
    \/ AssessEvidenceQuality
    \/ AssessClaimSpecificity
    \/ AssessVerdictConfidence
    \/ AssessSourceCredibility
    \/ AssessCategoryAndReturn
    \/ EnhanceReturn
    \/ PatternEvidence
    \/ PatternSpecificity
    \/ PatternVerdict
    \/ PatternConfidence
    \/ PatternContentAndReturn


(***************************************************************************)
(* pipeline.py: classify, retrieve evidence, evaluate                      *)
(***************************************************************************)

\* "Financial"
CatFinancial == <<"F", "i", "n", "a", "n", "c", "i", "a", "l">>
\* "Operational"
CatOperational == <<"O", "p", "e", "r", "a", "t", "i", "o", "n", "a", "l">>
\* "Legal & Compliance"
CatLegal == <<"L", "e", "g", "a", "l", " ", "&", " ", "C", "o", "m", "p", "l", "i", "a", "n", "c", "e">>
\* "Environmental, Social, and Governance (ESG)"
CatESG == <<"E", "n", "v", "i", "r", "o", "n", "m", "e", "n", "t", "a", "l", ",", " ", "S", "o", "c", "i", "a", "l", ",", " ", "a", "n", "d", " ", "G", "o", "v", "e", "r", "n", "a", "n", "c", "e", " ", "(", "E", "S", "G", ")">>

valid_categories == {CatFinancial, CatOperational, CatLegal, CatESG}

\* mutant: the response is taken over without the membership test
category_of_unchecked(response) == Strip(response)

\* response = chain.invoke(...).content.strip()
\* category = response if response in valid_categories else "Operational"
category_of(response) ==
    LET stripped == Strip(response)
    IN  IF stripped \in valid_categories THEN stripped ELSE CatOperational

\* what the model may answer to the classification prompt
ClassifyResponses ==
    { CatFinancial, CatLegal, CatESG,
      <<" ", "F", "i", "n", "a", "n", "c", "i", "a", "l", "\n">>,                 \* " Financial\n"
      <<"f", "i", "n", "a", "n", "c", "i", "a", "l">>,                    \* "financial"
      <<"E", "S", "G">>,                          \* "ESG"
      <<"C", "a", "t", "e", "g", "o", "r", "y", ":", " ", "F", "i", "n", "a", "n", "c", "i", "a", "l">>,          \* "Category: Financial"
      <<>> }                          \* ""

\* the local corpus: empty when the downloads failed, else its chunks
Corpora ==
    { <<>>,
      << [page_content |-> <<"C", "a", "r", "b", "o", "n", " ", "o", "u", "t", "p", "u", "t", " ", "f", "e", "l", "l">>, source_paper |-> "evidence_paper_1.pdf"],
         [page_content |-> <<"S", "a", "l", "e", "s", " ", "d", "a", "t", "a">>, source_paper |-> "evidence_paper_2.pdf"] >> }

\* the lines the model may answer to the query prompt
QueryLines ==
    { <<"1", ".", " ", "c", "a", "r", "b", "o", "n", " ", "c", "u", "t">>,               \* "1. carbon cut"
      <<"C", "a", "r", "b", "o", "n", " ", "o", "u", "t", "p", "u", "t", " ", "a">>,             \* "Carbon output a"
      <<"2", ".", " ", " ", "r", "e", "v", "e", "n", "u", "e", " ">>,                \* "2.  revenue "
      <<" ", " ">> }                         \* "  "

\* number of lines in the model's answer to the query prompt
MaxQueries == 2

RECURSIVE JoinLines(_)
\* "\n".join(lines)
JoinLines(lines) ==
    IF lines = <<>> THEN <<>>
    ELSE IF Len(lines) = 1 THEN lines[1]
    ELSE lines[1] \o <<"\n">> \o JoinLines(Tail(lines))

QueryResponses ==
    UNION {{JoinLines(l) : l \in [1..n -> QueryLines]} : n \in 0..MaxQueries}

RECURSIVE SplitOn(_, _)
\* str.split(sep) for a one-character separator
SplitOn(s, sep) ==
    IF \A i \in DOMAIN s : s[i] # sep THEN <<s>>
    ELSE LET i == CHOOSE j \in DOMAIN s : s[j] = sep /\ \A k \in 1..(j - 1) : s[k] # sep
         IN  <<SubSeq(s, 1, i - 1)>> \o SplitOn(SubSeq(s, i + 1, Len(s)), sep)

Digits == {"0", "1", "2", "3", "4", "5", "6", "7", "8", "9"}

\* length of the longest prefix of s made of characters of set
RECURSIVE PrefixLen(_, _)
PrefixLen(s, set) ==
    IF s # <<>> /\ Head(s) \in set THEN 1 + PrefixLen(Tail(s), set) ELSE 0

\* re.sub(r'^\d+\.\s*', '', q)
strip_numbering(q) ==
    LET d == PrefixLen(q, Digits)
    IN  IF d >= 1 /\ d < Len(q) /\ q[d + 1] = "."
        THEN LET rest == SubSeq(q, d + 2, Len(q))
             IN  SubSeq(rest, PrefixLen(rest, Whitespace) + 1, Len(rest))
        ELSE q

\* queries = [re.sub(...).strip() for q in response.split('\n') if q.strip()]
parse_queries(response) ==
    LET lines == SelectSeq(SplitOn(response, "\n"), LAMBDA q : Strip(q) # <<>>)
    IN  [i \in DOMAIN lines |-> Strip(strip_numbering(lines[i]))]

WordChars ==
    Digits \cup {"_"} \cup DOMAIN lower_table \cup {lower_table[c] : c \in DOMAIN lower_table}

RECURSIVE Words(_)
\* set(re.findall(r'\b\w+\b', s)): the maximal runs of word characters
Words(s) ==
    IF s = <<>> THEN {}
    ELSE LET n == PrefixLen(s, WordChars)
         IN  IF n = 0 THEN Words(Tail(s))
             ELSE {SubSeq(s, 1, n)} \cup Words(SubSeq(s, n + 1, Len(s)))

\* score = sum(1 for term in key_terms if term in content_lower)
chunk_score(query, chunk) ==
    Cardinality({term \in Words(Lower(query)) : Contains(Lower(chunk.page_content), term)})

\* mutant: a chunk is taken whatever its score
local_results_unfiltered(query, chunks) ==
    [k \in DOMAIN chunks |->
        [source_query |-> query,
         retrieved_content |-> chunks[k].page_content,
         source |-> chunks[k].source_paper,
         relevance_score |-> chunk_score(query, chunks[k])]]

\* the local_results of one query
local_results(query, chunks) ==
    LET hits == SelectSeq([i \in DOMAIN chunks |-> i], LAMBDA i : chunk_score(query, chunks[i]) > 0)
    IN  [k \in DOMAIN hits |->
            [source_query |-> query,
             retrieved_content |-> chunks[hits[k]].page_content,
             source |-> chunks[hits[k]].source_paper,
             relevance_score |-> chunk_score(query, chunks[hits[k]])]]

RECURSIVE Concat(_)
Concat(ss) == IF ss = <<>> THEN <<>> ELSE Head(ss) \o Concat(Tail(ss))

\* all_results after the loop over the local papers
all_local_results(queries, chunks) ==
    Concat([i \in DOMAIN queries |-> local_results(queries[i], chunks)])

\* "No good DuckDuckGo Search Result"
NoGoodResult == <<"N", "o", " ", "g", "o", "o", "d", " ", "D", "u", "c", "k", "D", "u", "c", "k", "G", "o", " ", "S", "e", "a", "r", "c", "h", " ", "R", "e", "s", "u", "l", "t">>

\* what one search_tool.run call does: raise, or return a text
WebOutcomes ==
    { [raises |-> TRUE,  text |-> <<>>],
      [raises |-> FALSE, text |-> <<>>],
      [raises |-> FALSE, text |-> NoGoodResult \o <<" ", "w", "a", "s", " ", "f", "o", "u", "n", "d", ".">>],
      [raises |-> FALSE, text |-> <<"A", "c", "m", "e", " ", "c", "u", "t", " ", "c", "a", "r", "b", "o", "n">>] }

\* mutant: the sentinel text is not recognised
web_result_usable_nosentinel(outcome) ==
    /\ ~outcome.raises
    /\ outcome.text # <<>>

\* if result_text and "No good DuckDuckGo Search Result" not in result_text
web_result_usable(outcome) ==
    /\ ~outcome.raises
    /\ outcome.text # <<>>
    /\ ~Contains(outcome.text, NoGoodResult)

\* all_results after the web fallback
all_web_results(queries, outcomes) ==
    LET used == SelectSeq([i \in DOMAIN queries |-> i], LAMBDA i : web_result_usable(outcomes[i]))
    IN  [k \in DOMAIN used |->
            [source_query |-> queries[used[k]],
             retrieved_content |-> outcomes[used[k]].text,
             source |-> "Web",
             relevance_score |-> 0]]

RECURSIVE InsertByRelevance(_, _)
\* x goes after every item whose relevance_score is at least its own
InsertByRelevance(sorted, x) ==
    IF sorted = <<>> THEN <<x>>
    ELSE IF Head(sorted).relevance_score >= x.relevance_score
         THEN <<Head(sorted)>> \o InsertByRelevance(Tail(sorted), x)
         ELSE <<x>> \o sorted

\* mutant: the collected items are kept in the order of collection
sorted_results_unsorted(all_results) == all_results

RECURSIVE sorted_results(_)
\* sorted(all_results, key=lambda x: x['relevance_score'], reverse=True): stable
sorted_results(all_results) ==
    IF all_results = <<>> THEN <<>>
    ELSE InsertByRelevance(sorted_results(SubSeq(all_results, 1, Len(all_results) - 1)),
                           all_results[Len(all_results)])

\* number of evidence items kept
TopEvidence == 3

NoEvidenceFound == "No reliable evidence was found."

\* the value retrieve_evidence_openrouter stores in claim_data['evidence']
evidence_of(all_results) ==
    IF all_results = <<>>
    THEN [kind |-> "str", value |-> NoEvidenceFound]
    ELSE [kind |-> "list",
          items |-> SubSeq(sorted_results(all_results), 1, Min(TopEvidence, Len(all_results)))]

\* dict.update / item assignment: the new fields win
Update(d, fields) == fields @@ d

\* json.loads of the model's answers to the evaluation prompt: an object and
\* its fields, an array, a number, or no JSON at all (ValueError)
json_loads(response) ==
    CASE response = "{\"verdict\": \"Confirmed\", \"evidence_summary\": \"s\", \"verdict_reasoning\": \"r\"}"
           -> [kind |-> "object",
               value |-> [verdict |-> "Confirmed", evidence_summary |-> "s", verdict_reasoning |-> "r"]]
      [] response = "{\"verdict\": \"Plausible\", \"evidence_summary\": \"s\", \"verdict_reasoning\": \"r\"}"
           -> [kind |-> "object",
               value |-> [verdict |-> "Plausible", evidence_summary |-> "s", verdict_reasoning |-> "r"]]
      [] response = "{\"verdict\": \"Contradicted\", \"evidence_summary\": \"s\", \"verdict_reasoning\": \"r\"}"
           -> [kind |-> "object",
               value |-> [verdict |-> "Contradicted", evidence_summary |-> "s", verdict_reasoning |-> "r"]]
      [] response = "{\"verdict\": \"Insufficient Evidence\", \"evidence_summary\": \"s\", \"verdict_reasoning\": \"r\"}"
           -> [kind |-> "object",
               value |-> [verdict |-> "Insufficient Evidence", evidence_summary |-> "s", verdict_reasoning |-> "r"]]
      [] response = "{\"verdict\": \"Likely True\", \"evidence_summary\": \"s\", \"verdict_reasoning\": \"r\"}"
           -> [kind |-> "object",
               value |-> [verdict |-> "Likely True", evidence_summary |-> "s", verdict_reasoning |-> "r"]]
      [] response = "{\"evidence_summary\": \"s\", \"verdict_reasoning\": \"r\"}"
           -> [kind |-> "object",
               value |-> [evidence_summary |-> "s", verdict_reasoning |-> "r"]]
      [] response = "{\"verdict\": \"Confirmed\", \"claim_text\": \"t\"}"
           -> [kind |-> "object",
               value |-> [verdict |-> "Confirmed", claim_text |-> "t"]]
      [] response = "{\"verdict\": \"Plausible\", \"category\": \"Tax\"}"
           -> [kind |-> "object",
               value |-> [verdict |-> "Plausible", category |-> <<"T", "a", "x">>]]
      [] response = "[]" -> [kind |-> "array"]
      [] response = "42" -> [kind |-> "number"]
      [] OTHER -> [kind |-> "invalid"]

EvaluateResponses ==
    { "{\"verdict\": \"Confirmed\", \"evidence_summary\": \"s\", \"verdict_reasoning\": \"r\"}",
      "{\"verdict\": \"Plausible\", \"evidence_summary\": \"s\", \"verdict_reasoning\": \"r\"}",
      "{\"verdict\": \"Contradicted\", \"evidence_summary\": \"s\", \"verdict_reasoning\": \"r\"}",
      "{\"verdict\": \"Insufficient Evidence\", \"evidence_summary\": \"s\", \"verdict_reasoning\": \"r\"}",
      "{\"verdict\": \"Likely True\", \"evidence_summary\": \"s\", \"verdict_reasoning\": \"r\"}",
      "{\"evidence_summary\": \"s\", \"verdict_reasoning\": \"r\"}",
      "{\"verdict\": \"Confirmed\", \"claim_text\": \"t\"}",
      "[]",
      "42",
      "Here is the JSON: {\"verdict\": \"Confirmed\"}",
      "The claim is confirmed by the evidence." }

\* mutant: the except branch does not keep the model's answer
evaluated_without_answer(claim_data, response) ==
    LET result_dict == json_loads(response)
    IN  CASE result_dict.kind = "object" -> Update(claim_data, result_dict.value)
          [] result_dict.kind = "array"  -> claim_data
          [] OTHER -> Update(claim_data,
                             [verdict |-> "Evaluation Error",
                              evidence_summary |-> "Failed to parse model JSON.",
                              verdict_reasoning |-> "Failed to parse model JSON."])

\* the try/except around json.loads and claim_data.update: an object is
\* merged, an empty array changes nothing, anything else raises
evaluated(claim_data, response) ==
    LET result_dict == json_loads(response)
    IN  CASE result_dict.kind = "object" -> Update(claim_data, result_dict.value)
          [] result_dict.kind = "array"  -> claim_data
          [] OTHER -> Update(claim_data,
                             [verdict |-> "Evaluation Error",
                              evidence_summary |-> "Failed to parse model JSON.",
                              verdict_reasoning |-> response])

\* if not evidence or isinstance(evidence, str)
no_evidence(ev) == IF ev.kind = "str" THEN TRUE ELSE ev.items = <<>>

\* a claim as extract_claims_openrouter creates it
ExtractedClaim ==
    [claim_text |-> "c", source_context |-> "chunk text",
     metadata |-> [source |-> "doc.txt", source_chunk_id |-> 0]]

NoResponse == <<>>

InitPipeline ==
    /\ ppc = "extracted"
    /\ claim = ExtractedClaim
    /\ evidence_chunks \in Corpora
    /\ llm_response = NoResponse
    /\ web_results = <<>>
    /\ llm_calls = 0
    /\ web_searches = 0

\* classify_claim_type_openrouter
Classify ==
    /\ ppc = "extracted"
    /\ \E response \in ClassifyResponses :
         /\ llm_response' = response
         /\ claim' = Update(claim, [category |-> category_of(response)])
    /\ llm_calls' = llm_calls + 1
    /\ ppc' = "classified"
    /\ UNCHANGED <<evidence_chunks, web_results, web_searches>>
    /\ UNCHANGED notPipeline

\* retrieve_evidence_openrouter
RetrieveEvidence ==
    /\ ppc = "classified"
    /\ \E response \in QueryResponses :
         LET queries == parse_queries(response)
             local == all_local_results(queries, evidence_chunks)
             found_in_papers == local # <<>>
         IN  /\ llm_response' = response
             /\ IF found_in_papers
                THEN /\ web_results' = <<>>
                     /\ web_searches' = web_searches
                     /\ claim' = Update(claim, [evidence |-> evidence_of(local)])
                ELSE \E outcomes \in [DOMAIN queries -> WebOutcomes] :
                       /\ web_results' = outcomes
                       /\ web_searches' = web_searches + Len(queries)
                       /\ claim' = Update(claim,
                                      [evidence |-> evidence_of(all_web_results(queries, outcomes))])
    /\ llm_calls' = llm_calls + 1
    /\ ppc' = "retrieved"
    /\ UNCHANGED evidence_chunks
    /\ UNCHANGED notPipeline

\* evaluate_claim_openrouter: no evidence, no model call
EvaluateWithoutEvidence ==
    /\ ppc = "retrieved"
    /\ no_evidence(claim["evidence"])
    /\ claim' = Update(claim,
                  [verdict |-> "Insufficient Evidence",
                   evidence_summary |-> "No relevant evidence found.",
                   verdict_reasoning |-> "The search did not yield enough evidence."])
    /\ ppc' = "evaluated"
    /\ UNCHANGED <<evidence_chunks, llm_response, web_results, llm_calls, web_searches>>
    /\ UNCHANGED notPipeline

\* evaluate_claim_openrouter: the model is asked and its answer merged
EvaluateWithEvidence ==
    /\ ppc = "retrieved"
    /\ ~no_evidence(claim["evidence"])
    /\ \E response \in EvaluateResponses :
         /\ llm_response' = response
         /\ claim' = evaluated(claim, response)
    /\ llm_calls' = llm_calls + 1
    /\ ppc' = "evaluated"
    /\ UNCHANGED <<evidence_chunks, web_results, web_searches>>
    /\ UNCHANGED notPipeline

\* a model call raises in one of the three stages: run_pipeline's per-claim
\* except branch keeps the claim and records the error
StageRaises ==
    /\ ppc \in {"extracted", "classified"}
       \/ (ppc = "retrieved" /\ ~no_evidence(claim["evidence"]))
    /\ claim' = Update(claim, [error |-> "model call failed"])
    /\ llm_calls' = llm_calls + 1
    /\ ppc' = "failed"
    /\ UNCHANGED <<evidence_chunks, llm_response, web_results, web_searches>>
    /\ UNCHANGED notPipeline

NextPipeline ==
    \/ Classify
    \/ RetrieveEvidence
    \/ EvaluateWithoutEvidence
    \/ EvaluateWithEvidence
    \/ StageRaises

(***************************************************************************)
(* University review analyzer (university_reviews.py)                      *)
(*                                                                         *)
(* One call of search_university_reviews on the shared analyzer.  A web    *)
(* search is an input: what a query finds, and whether it raises, is       *)
(* chosen freely.  Of a review the sentiment, the review type and the      *)
(* complaint categories are kept; url, date, content, rating and relevance *)
(* score are left out, and with them review_summary.average_rating.  The   *)
(* text of a query and of an exception stay the placeholders of the        *)
(* message templates.                                                      *)
(***************************************************************************)

\* number of entries of the list `words` that occur in text
CountContained(text, words) ==
    Cardinality({i \in DOMAIN words : Contains(text, words[i])})

negative_words ==
    << <<"b", "a", "d">>, <<"p", "o", "o", "r">>, <<"t", "e", "r", "r", "i", "b", "l", "e">>,
        <<"a", "w", "f", "u", "l">>, <<"h", "o", "r", "r", "i", "b", "l", "e">>, <<"w", "o",
        "r", "s", "t">>, <<"d", "i", "s", "a", "p", "p", "o", "i", "n", "t", "i", "n", "g">>,
       <<"u", "s", "e", "l", "e", "s", "s">>, <<"w", "a", "s", "t", "e">>, <<"p", "a", "t", "h",
           "e", "t", "i", "c">>, <<"r", "e", "g", "r", "e", "t">>, <<"a", "v", "o", "i", "d">>,
           <<"n", "o", "t", " ", "r", "e", "c", "o", "m", "m", "e", "n", "d", "e", "d">>,
       <<"p", "r", "o", "b", "l", "e", "m", "s">>, <<"i", "s", "s", "u", "e", "s">>, <<"c", "o",
           "m", "p", "l", "a", "i", "n", "t", "s">>, <<"c", "o", "n", "c", "e", "r", "n", "s">>,
           <<"d", "i", "f", "f", "i", "c", "u", "l", "t", "i", "e", "s">>,
       <<"o", "u", "t", "d", "a", "t", "e", "d">>, <<"i", "n", "s", "u", "f", "f", "i", "c",
           "i", "e", "n", "t">>, <<"i", "n", "a", "d", "e", "q", "u", "a", "t", "e">>, <<"l",
           "i", "m", "i", "t", "e", "d">>, <<"l", "a", "c", "k", " ", "o", "f">>,
       <<"u", "n", "s", "a", "t", "i", "s", "f", "i", "e", "d">>, <<"d", "i", "s", "a", "p",
           "p", "o", "i", "n", "t", "e", "d">>, <<"f", "r", "u", "s", "t", "r", "a", "t", "e",
           "d">>, <<"a", "n", "g", "r", "y">> >>

positive_words ==
    << <<"g", "o", "o", "d">>, <<"g", "r", "e", "a", "t">>, <<"e", "x", "c", "e", "l", "l", "e",
        "n", "t">>, <<"a", "m", "a", "z", "i", "n", "g">>, <<"w", "o", "n", "d", "e", "r", "f",
        "u", "l">>, <<"b", "e", "s", "t">>,
       <<"r", "e", "c", "o", "m", "m", "e", "n", "d", "e", "d">>, <<"s", "a", "t", "i", "s",
           "f", "i", "e", "d">>, <<"h", "a", "p", "p", "y">>, <<"p", "l", "e", "a", "s", "e",
           "d">>, <<"i", "m", "p", "r", "e", "s", "s", "e", "d">>,
       <<"q", "u", "a", "l", "i", "t", "y">>, <<"o", "u", "t", "s", "t", "a", "n", "d", "i",
           "n", "g">>, <<"f", "a", "n", "t", "a", "s", "t", "i", "c">>, <<"s", "u", "p", "e",
           "r", "b">>, <<"b", "r", "i", "l", "l", "i", "a", "n", "t">> >>

analyze_review_sentiment(text) ==
    LET text_lower == Lower(text)
        negative_count == CountContained(text_lower, negative_words)
        positive_count == CountContained(text_lower, positive_words)
    IN  IF negative_count > positive_count /\ negative_count >= 1 THEN "negative"
        ELSE IF positive_count > negative_count /\ positive_count >= 1 THEN "positive"
        ELSE "neutral"

\* complaint_keywords, in the order of the dict
complaint_keywords ==
    << [category |-> "academics",
        keywords |-> << <<"f", "a", "c", "u", "l", "t", "y">>, <<"t", "e", "a", "c", "h", "i",
            "n", "g">>, <<"p", "r", "o", "f", "e", "s", "s", "o", "r">>, <<"t", "e", "a", "c",
            "h", "e", "r">>, <<"c", "u", "r", "r", "i", "c", "u", "l", "u", "m">>,
                        <<"s", "y", "l", "l", "a", "b", "u", "s">>, <<"e", "d", "u", "c", "a",
                            "t", "i", "o", "n">>, <<"a", "c", "a", "d", "e", "m", "i", "c">>,
                            <<"c", "o", "u", "r", "s", "e">>, <<"s", "t", "u", "d", "y">>,
                        <<"o", "u", "t", "d", "a", "t", "e", "d", " ", "c", "o", "u", "r", "s",
                            "e">>, <<"p", "o", "o", "r", " ", "t", "e", "a", "c", "h", "i", "n",
                            "g">>, <<"b", "a", "d", " ", "f", "a", "c", "u", "l", "t",
                            "y">> >>],
       [category |-> "infrastructure",
        keywords |-> << <<"i", "n", "f", "r", "a", "s", "t", "r", "u", "c", "t", "u", "r",
            "e">>, <<"b", "u", "i", "l", "d", "i", "n", "g">>, <<"c", "l", "a", "s", "s", "r",
            "o", "o", "m">>, <<"l", "a", "b">>, <<"l", "i", "b", "r", "a", "r", "y">>,
                        <<"f", "a", "c", "i", "l", "i", "t", "y">>, <<"e", "q", "u", "i", "p",
                            "m", "e", "n", "t">>, <<"m", "a", "i", "n", "t", "e", "n", "a", "n",
                            "c", "e">>, <<"w", "i", "f", "i">>, <<"i", "n", "t", "e", "r", "n",
                            "e", "t">>,
                        <<"o", "l", "d", " ", "b", "u", "i", "l", "d", "i", "n", "g">>, <<"p",
                            "o", "o", "r", " ", "i", "n", "f", "r", "a", "s", "t", "r", "u",
                            "c", "t", "u", "r", "e">> >>],
       [category |-> "placements",
        keywords |-> << <<"p", "l", "a", "c", "e", "m", "e", "n", "t">>, <<"j", "o", "b">>,
            <<"c", "a", "r", "e", "e", "r">>, <<"c", "o", "m", "p", "a", "n", "y">>, <<"p", "a",
            "c", "k", "a", "g", "e">>, <<"s", "a", "l", "a", "r", "y">>,
                        <<"e", "m", "p", "l", "o", "y", "m", "e", "n", "t">>, <<"r", "e", "c",
                            "r", "u", "i", "t", "i", "n", "g">>, <<"i", "n", "t", "e", "r", "n",
                            "s", "h", "i", "p">>, <<"o", "p", "p", "o", "r", "t", "u", "n", "i",
                            "t", "y">>,
                        <<"p", "o", "o", "r", " ", "p", "l", "a", "c", "e", "m", "e", "n",
                            "t">>, <<"n", "o", " ", "j", "o", "b", "s">> >>],
       [category |-> "administration",
        keywords |-> << <<"a", "d", "m", "i", "n", "i", "s", "t", "r", "a", "t", "i", "o",
            "n">>, <<"m", "a", "n", "a", "g", "e", "m", "e", "n", "t">>, <<"s", "t", "a", "f",
            "f">>, <<"o", "f", "f", "i", "c", "e">>, <<"s", "e", "r", "v", "i", "c", "e">>,
                        <<"s", "u", "p", "p", "o", "r", "t">>, <<"r", "e", "s", "p", "o", "n",
                            "s", "e">>, <<"b", "u", "r", "e", "a", "u", "c", "r", "a", "c",
                            "y">>, <<"p", "r", "o", "c", "e", "s", "s">>,
                        <<"p", "o", "o", "r", " ", "s", "e", "r", "v", "i", "c", "e">>, <<"b",
                            "a", "d", " ", "a", "d", "m", "i", "n", "i", "s", "t", "r", "a",
                            "t", "i", "o", "n">> >>],
       [category |-> "fees",
        keywords |-> << <<"f", "e", "e", "s">>, <<"f", "e", "e">>, <<"c", "o", "s", "t">>,
            <<"e", "x", "p", "e", "n", "s", "i", "v", "e">>, <<"m", "o", "n", "e", "y">>, <<"f",
            "i", "n", "a", "n", "c", "i", "a", "l">>,
                        <<"t", "u", "i", "t", "i", "o", "n">>, <<"c", "h", "a", "r", "g", "e">>,
                            <<"p", "a", "y", "m", "e", "n", "t">>, <<"h", "i", "g", "h", " ",
                            "f", "e", "e", "s">> >>],
       [category |-> "hostel",
        keywords |-> << <<"h", "o", "s", "t", "e", "l">>, <<"a", "c", "c", "o", "m", "m", "o",
            "d", "a", "t", "i", "o", "n">>, <<"r", "o", "o", "m">>, <<"m", "e", "s", "s">>,
            <<"f", "o", "o", "d">>,
                        <<"r", "e", "s", "i", "d", "e", "n", "c", "e">>, <<"l", "i", "v", "i",
                            "n", "g">>, <<"s", "t", "a", "y", "i", "n", "g">>, <<"b", "o", "a",
                            "r", "d", "i", "n", "g">>,
                        <<"p", "o", "o", "r", " ", "f", "o", "o", "d">>, <<"b", "a", "d", " ",
                            "h", "o", "s", "t", "e", "l">> >>] >>

extract_real_complaints(text) ==
    LET text_lower == Lower(text)
        hit(i) == CountContained(text_lower, complaint_keywords[i].keywords) >= 1
        hits == SelectSeq([i \in DOMAIN complaint_keywords |-> i], hit)
        found_categories == [k \in DOMAIN hits |-> complaint_keywords[hits[k]].category]
    IN  IF found_categories # <<>> THEN found_categories ELSE <<"general">>

\* texts a search result or a scraped page element may carry; each is long
\* enough and names the university, so that the extractor keeps it
ReviewTexts ==
    { <<"D", "e", "l", "h", "i", " ", "U", "n", "i", "v", "e", "r", "s", "i", "t", "y", " ",
        "h", "a", "s", " ", "p", "o", "o", "r", " ", "h", "o", "s", "t", "e", "l", "s", " ",
        "a", "n", "d", " ", "o", "u", "t", "d", "a", "t", "e", "d", " ", "l", "a", "b", "s",
        ",", " ", "a", "v", "o", "i", "d", " ", "i", "t", " ", "i", "f", " ", "y", "o", "u",
        " ", "c", "a", "n", ".">>,
      <<"D", "e", "l", "h", "i", " ", "U", "n", "i", "v", "e", "r", "s", "i", "t", "y", " ",
          "i", "s", " ", "a", " ", "g", "r", "e", "a", "t", " ", "c", "a", "m", "p", "u", "s",
          " ", "w", "i", "t", "h", " ", "e", "x", "c", "e", "l", "l", "e", "n", "t", " ", "p",
          "l", "a", "c", "e", "m", "e", "n", "t", " ", "a", "n", "d", " ", "g", "o", "o", "d",
          " ", "h", "o", "s", "t", "e", "l", " ", "f", "o", "o", "d", ".">>,
      <<"G", "o", "o", "d", " ", "t", "e", "a", "c", "h", "e", "r", "s", " ", "b", "u", "t",
          " ", "b", "a", "d", " ", "m", "a", "n", "a", "g", "e", "m", "e", "n", "t", " ", "a",
          "t", " ", "D", "e", "l", "h", "i", " ", "U", "n", "i", "v", "e", "r", "s", "i", "t",
          "y", ",", " ", "a", "n", "d", " ", "t", "h", "e", " ", "f", "e", "e", "s", " ", "k",
          "e", "e", "p", " ", "r", "i", "s", "i", "n", "g", ".">>,
      <<"W", "o", "r", "s", "t", " ", "h", "o", "s", "t", "e", "l", " ", "m", "e", "s", "s",
          ",", " ", "r", "u", "d", "e", " ", "s", "t", "a", "f", "f", ",", " ", "n", "o", " ",
          "j", "o", "b", "s", " ", "a", "f", "t", "e", "r", " ", "t", "h", "e", " ", "c", "o",
          "u", "r", "s", "e", ",", " ", "e", "x", "p", "e", "n", "s", "i", "v", "e", " ", "f",
          "e", "e", "s", " ", "a", "n", "d", " ", "t", "e", "r", "r", "i", "b", "l", "e", " ",
          "w", "i", "f", "i", " ", "a", "t", " ", "D", "e", "l", "h", "i", " ", "U", "n", "i",
          "v", "e", "r", "s", "i", "t", "y", ".">> }

\* the review dict built from a text (scrape_*_reviews, extract_real_social_data,
\* extract_real_news_data)
review_data(text, review_type) ==
    [sentiment |-> analyze_review_sentiment(text),
     review_type |-> review_type,
     complaints |-> extract_real_complaints(text)]

PlatformReviews == {review_data(text, "platform_review") : text \in ReviewTexts}
SocialData == {review_data(text, "social_media") : text \in ReviewTexts}
NewsData == {review_data(text, "news_mention") : text \in ReviewTexts}

\* results['nirf_ranking'] = None
NoRanking == [type |-> "NoneType"]

\* the dicts fetch_real_nirf_ranking can return: an official ranking found by
\* extract_real_nirf_data, the three of fetch_alternative_ranking_data, and
\* the one of its own except branch
RankingOutcomes ==
    << [type |-> "dict", ranking |-> 12, year |-> "2024", category |-> "University",
       verified |-> TRUE, source |-> "official_nirf"],
      [type |-> "dict", ranking |-> 150, year |-> "2024", category |-> "Overall",
       verified |-> FALSE, source |-> "alternative_ranking"],
      [type |-> "dict", ranking |-> None, year |-> "2024", category |-> "Overall",
       verified |-> FALSE, source |-> "not_found",
       note |-> "No official ranking found for {university_name}"],
      [type |-> "dict", ranking |-> None, error |-> "{e}", year |-> "2024",
       category |-> "Overall", verified |-> FALSE],
      [type |-> "dict", ranking |-> None, error |-> "{e}", year |-> "2024",
       category |-> "Overall", verified |-> FALSE, source |-> "search_failed"] >>

UniversityNames == {"Delhi University"}

\* the results dict search_university_reviews starts from
new_results(university_name) ==
    [university_name |-> university_name,
     nirf_ranking |-> NoRanking,
     negative_reviews |-> <<>>,
     positive_reviews |-> <<>>,
     review_summary |-> [total_negative_reviews |-> 0,
                         total_positive_reviews |-> 0,
                         common_complaints |-> <<>>,
                         common_praises |-> <<>>],
     sources |-> <<>>,
     search_status |-> "success",
     debug_info |-> [web_search_available |-> WEB_SEARCH_AVAILABLE,
                     search_attempts |-> 0,
                     errors |-> <<>>,
                     scraped_platforms |-> <<>>]]

_return_error(error_message) ==
    [university_name |-> "",
     nirf_ranking |-> NoRanking,
     negative_reviews |-> <<>>,
     positive_reviews |-> <<>>,
     review_summary |-> [total_negative_reviews |-> 0,
                         total_positive_reviews |-> 0,
                         common_complaints |-> <<>>,
                         common_praises |-> <<>>],
     sources |-> <<>>,
     search_status |-> "error",
     error |-> error_message,
     debug_info |-> [web_search_available |-> WEB_SEARCH_AVAILABLE,
                     search_attempts |-> 0,
                     errors |-> <<error_message>>]]

\* number of queries of each phase's list
platform_queries == 4
social_queries == 4
news_queries == 3

\* search results one query brings back that the extractor keeps
MaxResults == 1

\* queries of one call that find something or raise
MaxEvents == 2

\* the lists of at most MaxResults elements of S
UpToMaxResults(S) == UNION {[1..n -> S] : n \in 0..MaxResults}

RECURSIVE scraped_reviews(_)
\* the {'negative': [...], 'positive': [...]} dict a scraper builds from the
\* reviews of a page
scraped_reviews(found) ==
    IF found = <<>> THEN [negative |-> <<>>, positive |-> <<>>]
    ELSE LET reviews == scraped_reviews(SubSeq(found, 1, Len(found) - 1))
             review == found[Len(found)]
         IN  IF review.sentiment = "negative"
             THEN [reviews EXCEPT !.negative = Append(@, review)]
             ELSE [reviews EXCEPT !.positive = Append(@, review)]

\* what scrape_review_page returns for a page that could be scraped
ScrapedPages == {scraped_reviews(found) : found \in UpToMaxResults(PlatformReviews)}

\* where a query of a phase raises: nowhere, in rate_limit or the search call,
\* or while handling a search result after the ones it found
Raises == {"no", "search", "result"}

\* what one query of a phase meets
QueryOutcomes(Found) ==
    {out \in [found : UpToMaxResults(Found), raises : Raises] :
        out.raises = "search" => out.found = <<>>}

\* queries of this call that found something or raised
events(r) == Len(r.sources) + Len(r.debug_info.errors)

\* results['debug_info']['search_attempts'] += 1, reached when the search returned
attempted(r, out) ==
    IF out.raises = "search" THEN r
    ELSE [r EXCEPT !.debug_info.search_attempts = @ + 1]

\* the except branch of a query loop
query_failed(r, out, message) ==
    IF out.raises = "no" THEN r
    ELSE [r EXCEPT !.debug_info.errors = Append(@, message)]

RECURSIVE add_scraped(_, _)
\* the loop of search_real_review_platforms over the results of one query
add_scraped(r, pages) ==
    IF pages = <<>> THEN r
    ELSE LET before == add_scraped(r, SubSeq(pages, 1, Len(pages) - 1))
             page == pages[Len(pages)]
         IN  [before EXCEPT
                 !.negative_reviews = @ \o page.negative,
                 !.positive_reviews = @ \o page.positive,
                 !.debug_info.scraped_platforms = Append(@, "domain"),
                 !.sources = Append(@, [type |-> "review_platform"])]

\* mutant: the lists are split by the positive label, a neutral record goes
\* with the negative ones
add_found_by_positive(r, found, type) ==
    [r EXCEPT
        !.negative_reviews = @ \o SelectSeq(found, LAMBDA data : data.sentiment # "positive"),
        !.positive_reviews = @ \o SelectSeq(found, LAMBDA data : data.sentiment = "positive"),
        !.sources = @ \o [i \in DOMAIN found |-> [type |-> type]]]

RECURSIVE add_found(_, _, _)
\* the loop of search_real_social_media / search_real_news_mentions over the
\* results of one query
add_found(r, found, type) ==
    IF found = <<>> THEN r
    ELSE LET before == add_found(r, SubSeq(found, 1, Len(found) - 1), type)
             data == found[Len(found)]
             placed == IF data.sentiment = "negative"
                       THEN [before EXCEPT !.negative_reviews = Append(@, data)]
                       ELSE [before EXCEPT !.positive_reviews = Append(@, data)]
         IN  [placed EXCEPT !.sources = Append(@, [type |-> type])]

\* mutant: the totals are left as they were
with_totals_stale(r) == r

\* results['review_summary']['total_*_reviews'] = len(*_reviews)
with_totals(r) ==
    [r EXCEPT !.review_summary.total_negative_reviews = Len(r.negative_reviews),
              !.review_summary.total_positive_reviews = Len(r.positive_reviews)]

\* all_complaints / all_praises: the complaints of the reviews, in order
all_complaints(reviews) == Concat([i \in DOMAIN reviews |-> reviews[i].complaints])

RECURSIVE complaint_counts(_)
\* the dict of frequencies, in insertion order
complaint_counts(complaints) ==
    IF complaints = <<>> THEN <<>>
    ELSE LET counts == complaint_counts(SubSeq(complaints, 1, Len(complaints) - 1))
             complaint == complaints[Len(complaints)]
         IN  IF \E i \in DOMAIN counts : counts[i].category = complaint
             THEN [i \in DOMAIN counts |->
                      IF counts[i].category = complaint
                      THEN [counts[i] EXCEPT !.frequency = @ + 1]
                      ELSE counts[i]]
             ELSE Append(counts, [category |-> complaint, frequency |-> 1])

RECURSIVE InsertByFrequency(_, _)
\* x placed after the items of the sorted list whose frequency is at least its own
InsertByFrequency(sorted, x) ==
    IF sorted = <<>> THEN <<x>>
    ELSE IF Head(sorted).frequency >= x.frequency
         THEN <<Head(sorted)>> \o InsertByFrequency(Tail(sorted), x)
         ELSE <<x>> \o sorted

\* mutant: the items are left in the order of the dict
sorted_counts_unsorted(counts) == counts

RECURSIVE sorted_counts(_)
\* sorted(counts.items(), key=lambda x: x[1], reverse=True): stable
sorted_counts(counts) ==
    IF counts = <<>> THEN <<>>
    ELSE InsertByFrequency(sorted_counts(SubSeq(counts, 1, Len(counts) - 1)),
                           counts[Len(counts)])

\* number of complaint and praise categories kept
TopCategories == 5

\* the [:5] most frequent categories of the reviews
common(reviews) ==
    LET counts == sorted_counts(complaint_counts(all_complaints(reviews)))
    IN  SubSeq(counts, 1, Min(TopCategories, Len(counts)))

analyze_real_review_patterns(r) ==
    LET counted == with_totals(r)
    IN  IF r.negative_reviews = <<>> /\ r.positive_reviews = <<>>
        THEN counted
        ELSE [counted EXCEPT
                 !.review_summary.common_complaints = common(r.negative_reviews),
                 !.review_summary.common_praises = common(r.positive_reviews)]

\* mutant: the status is never changed
validated_unchecked(r) == r

\* the validation at the end of search_university_reviews
validated(r) ==
    IF r.negative_reviews = <<>> /\ r.positive_reviews = <<>>
    THEN Update([r EXCEPT !.search_status = "no_data_found"],
                [error |-> "No real review data found for this university"])
    ELSE r

NoResults == [search_status |-> "not started"]

InitReviews ==
    /\ WEB_SEARCH_AVAILABLE \in BOOLEAN
    /\ rpc = "idle"
    /\ next_query = 0
    /\ results = NoResults
    /\ returned = NoResults

\* search_university_reviews without the search package
SearchUnavailable ==
    /\ rpc = "idle"
    /\ ~WEB_SEARCH_AVAILABLE
    /\ returned' = _return_error("Web search dependencies not available")
    /\ rpc' = "returned_error"
    /\ UNCHANGED <<WEB_SEARCH_AVAILABLE, next_query, results>>
    /\ UNCHANGED notReviews

\* search_university_reviews up to its try block
StartSearch ==
    /\ rpc = "idle"
    /\ WEB_SEARCH_AVAILABLE
    /\ \E university_name \in UniversityNames :
          results' = new_results(university_name)
    /\ rpc' = "ranking"
    /\ UNCHANGED <<WEB_SEARCH_AVAILABLE, next_query, returned>>
    /\ UNCHANGED notReviews

\* step 1: results['nirf_ranking'] = self.fetch_real_nirf_ranking(...)
FetchRealNirfRanking ==
    /\ rpc = "ranking"
    /\ \E i \in DOMAIN RankingOutcomes :
          results' = [results EXCEPT !.nirf_ranking = RankingOutcomes[i]]
    /\ rpc' = "platforms"
    /\ next_query' = 1
    /\ UNCHANGED <<WEB_SEARCH_AVAILABLE, returned>>
    /\ UNCHANGED notReviews

\* the loop of a phase moves to its next query, or the phase ends
Advance(queries, next_phase) ==
    IF next_query < queries
    THEN next_query' = next_query + 1 /\ rpc' = rpc
    ELSE next_query' = 1 /\ rpc' = next_phase

\* the outer except branch of a phase: DDGS() raised before the first query
PhaseFailed(message, next_phase) ==
    /\ next_query = 1
    /\ events(results) < MaxEvents
    /\ results' = [results EXCEPT !.debug_info.errors = Append(@, message)]
    /\ next_query' = 1
    /\ rpc' = next_phase

\* step 2, search_real_review_platforms: one query of its loop
SearchRealReviewPlatforms ==
    /\ rpc = "platforms"
    /\ \/ PhaseFailed("Error searching review platforms: {e}", "social")
       \/ /\ \E out \in QueryOutcomes(ScrapedPages) :
                LET after == query_failed(
                                 add_scraped(attempted(results, out), out.found),
                                 out, "Error in platform query '{query}': {e}")
                IN  /\ events(after) <= MaxEvents
                    /\ results' = after
          /\ Advance(platform_queries, "social")
    /\ UNCHANGED <<WEB_SEARCH_AVAILABLE, returned>>
    /\ UNCHANGED notReviews

\* step 3, search_real_social_media: one query of its loop
SearchRealSocialMedia ==
    /\ rpc = "social"
    /\ \/ PhaseFailed("Error searching social media: {e}", "news")
       \/ /\ \E out \in QueryOutcomes(SocialData) :
                LET after == query_failed(
                                 add_found(attempted(results, out), out.found, "social_media"),
                                 out, "Error in social query '{query}': {e}")
                IN  /\ events(after) <= MaxEvents
                    /\ results' = after
          /\ Advance(social_queries, "news")
    /\ UNCHANGED <<WEB_SEARCH_AVAILABLE, returned>>
    /\ UNCHANGED notReviews

\* step 4, search_real_news_mentions: one query of its loop
SearchRealNewsMentions ==
    /\ rpc = "news"
    /\ \/ PhaseFailed("Error searching news: {e}", "analysis")
       \/ /\ \E out \in QueryOutcomes(NewsData) :
                LET after == query_failed(
                                 add_found(attempted(results, out), out.found, "news_article"),
                                 out, "Error in news query '{query}': {e}")
                IN  /\ events(after) <= MaxEvents
                    /\ results' = after
          /\ Advance(news_queries, "analysis")
    /\ UNCHANGED <<WEB_SEARCH_AVAILABLE, returned>>
    /\ UNCHANGED notReviews

\* step 5: self.analyze_real_review_patterns(results)
AnalyzeRealReviewPatterns ==
    /\ rpc = "analysis"
    /\ results' = analyze_real_review_patterns(results)
    /\ rpc' = "validate"
    /\ UNCHANGED <<WEB_SEARCH_AVAILABLE, next_query, returned>>
    /\ UNCHANGED notReviews

\* the validation and `return results`
ValidateAndReturn ==
    /\ rpc = "validate"
    /\ results' = validated(results)
    /\ returned' = validated(results)
    /\ rpc' = "returned"
    /\ UNCHANGED <<WEB_SEARCH_AVAILABLE, next_query>>
    /\ UNCHANGED notReviews

\* the except branch of search_university_reviews: a statement of the try
\* block raised outside the phases' own handlers; the local results dict is
\* dropped
CriticalError ==
    /\ rpc \in {"ranking", "platforms", "social", "news", "analysis", "validate"}
    /\ returned' = _return_error("{e}")
    /\ rpc' = "returned_error"
    /\ results' = NoResults
    /\ next_query' = 0
    /\ UNCHANGED WEB_SEARCH_AVAILABLE
    /\ UNCHANGED notReviews

NextReviews ==
    \/ SearchUnavailable
    \/ StartSearch
    \/ FetchRealNirfRanking
    \/ SearchRealReviewPlatforms
    \/ SearchRealSocialMedia
    \/ SearchRealNewsMentions
    \/ AnalyzeRealReviewPatterns
    \/ ValidateAndReturn
    \/ CriticalError

(***************************************************************************)
(* Pattern-based detector (robust_professional_main.py)                    *)
(*                                                                         *)
(* One call of use_enhanced_pattern_analysis.  Texts are sequences of      *)
(* characters and the 31 rules are matched as re.search matches them:      *)
(* leftmost start, alternatives in order, lazy gaps that do not cross a    *)
(* newline.  Of a claim the generated evidence_summary and                 *)
(* verdict_reasoning texts are left out.                                   *)
(***************************************************************************)

\* length of the run of characters of set that starts at position p of s
RECURSIVE RunLen(_, _, _)
RunLen(s, p, set) ==
    IF p <= Len(s) /\ s[p] \in set THEN 1 + RunLen(s, p + 1, set) ELSE 0

SentenceEnd == {".", "!", "?"}

RECURSIVE SplitSentences(_)
\* re.split(r'[.!?]+', content)
SplitSentences(s) ==
    IF \A i \in DOMAIN s : s[i] \notin SentenceEnd THEN <<s>>
    ELSE LET i == CHOOSE j \in DOMAIN s :
                      s[j] \in SentenceEnd /\ \A k \in 1..(j - 1) : s[k] \notin SentenceEnd
             n == RunLen(s, i, SentenceEnd)
         IN  <<SubSeq(s, 1, i - 1)>> \o SplitSentences(SubSeq(s, i + n, Len(s)))

\* a sentence is kept when its stripped text has more than this many characters
MinSentence == 30

\* sentences = [s.strip() for s in sentences if len(s.strip()) > 30]
sentences_of(text) ==
    LET pieces == SplitSentences(text)
        kept == SelectSeq(pieces, LAMBDA piece : Len(Strip(piece)) > MinSentence)
    IN  [i \in DOMAIN kept |-> Strip(kept[i])]

\* the loop skips a sentence shorter than this
MinClaimSentence == 40

\* mutant: no sentence is skipped for its length
too_short_never(sentence_clean) == FALSE

\* if len(sentence_clean) < 40: continue
too_short(sentence_clean) == Len(sentence_clean) < MinClaimSentence

claim_patterns ==
    <<
      [segments |-> <<
            << <<"r", "e", "v", "e", "n", "u", "e">> >>,
            << <<"i", "n", "c", "r", "e", "a", "s">>, <<"g", "r", "o", "w">>, <<"r", "i", "s",
                "e">>, <<"u", "p">>, <<"j", "u", "m", "p">>, <<"b", "o", "o", "s", "t">> >> >>,
       capture |-> "percent",
       units |-> <<  >>,
       category |-> "Financial", claim_type |-> "revenue_growth", confidence |-> "high"],
      [segments |-> <<
            << <<"p", "r", "o", "f", "i", "t">> >>,
            << <<"i", "n", "c", "r", "e", "a", "s">>, <<"g", "r", "o", "w">>, <<"r", "i", "s",
                "e">>, <<"u", "p">>, <<"s", "u", "r", "g", "e">> >> >>,
       capture |-> "percent",
       units |-> <<  >>,
       category |-> "Financial", claim_type |-> "profit_growth", confidence |-> "high"],
      [segments |-> <<
            << <<"s", "a", "l", "e", "s">> >>,
            << <<"r", "e", "a", "c", "h">>, <<"a", "c", "h", "i", "e", "v", "e">>, <<"t", "o",
                "t", "a", "l">>, <<"h", "i", "t">>, <<"e", "x", "c", "e", "e", "d">> >> >>,
       capture |-> "money",
       units |-> << <<"m", "i", "l", "l", "i", "o", "n">>, <<"b", "i", "l", "l", "i", "o",
           "n">>, <<"t", "h", "o", "u", "s", "a", "n", "d">> >>,
       category |-> "Financial", claim_type |-> "sales_figure", confidence |-> "high"],
      [segments |-> <<
            << <<"e", "a", "r", "n">>, <<"g", "e", "n", "e", "r", "a", "t">> >>,
            << <<"r", "e", "v", "e", "n", "u", "e">>, <<"i", "n", "c", "o", "m", "e">> >> >>,
       capture |-> "money",
       units |-> << <<"m", "i", "l", "l", "i", "o", "n">>, <<"b", "i", "l", "l", "i", "o",
           "n">> >>,
       category |-> "Financial", claim_type |-> "revenue_amount", confidence |-> "high"],
      [segments |-> <<
            << <<"c", "o", "s", "t">> >>,
            << <<"r", "e", "d", "u", "c">>, <<"s", "a", "v">>, <<"c", "u", "t">>, <<"l", "o",
                "w", "e", "r">> >> >>,
       capture |-> "percent",
       units |-> <<  >>,
       category |-> "Financial", claim_type |-> "cost_reduction", confidence |-> "medium"],
      [segments |-> <<
            << <<"m", "a", "r", "k", "e", "t">> >>,
            << <<"c", "a", "p">>, <<"v", "a", "l", "u", "e">>, <<"s", "h", "a", "r", "e">> >>,
            << <<"i", "n", "c", "r", "e", "a", "s">>, <<"g", "r", "o", "w">>, <<"r", "e", "a",
                "c", "h">> >> >>,
       capture |-> "percent",
       units |-> <<  >>,
       category |-> "Financial", claim_type |-> "market_performance", confidence |-> "medium"],
      [segments |-> <<
            << <<"e", "b", "i", "t", "d", "a">>, <<"m", "a", "r", "g", "i", "n">>, <<"r", "o",
                "i">> >>,
            << <<"i", "m", "p", "r", "o", "v">>, <<"i", "n", "c", "r", "e", "a", "s">> >> >>,
       capture |-> "percent",
       units |-> <<  >>,
       category |-> "Financial", claim_type |-> "financial_metrics", confidence |-> "high"],
      [segments |-> <<
            << <<"c", "a", "r", "b", "o", "n">> >>,
            << <<"r", "e", "d", "u", "c">>, <<"c", "u", "t">>, <<"l", "o", "w", "e", "r">>,
                <<"d", "e", "c", "r", "e", "a", "s">>, <<"m", "i", "t", "i", "g", "a",
                "t">> >> >>,
       capture |-> "percent",
       units |-> <<  >>,
       category |-> "ESG", claim_type |-> "carbon_reduction", confidence |-> "high"],
      [segments |-> <<
            << <<"e", "m", "i", "s", "s", "i", "o", "n">> >>,
            << <<"r", "e", "d", "u", "c">>, <<"d", "e", "c", "r", "e", "a", "s">>, <<"c", "u",
                "t">>, <<"l", "o", "w", "e", "r">>, <<"m", "i", "t", "i", "g", "a", "t">> >> >>,
       capture |-> "percent",
       units |-> <<  >>,
       category |-> "ESG", claim_type |-> "emission_reduction", confidence |-> "high"],
      [segments |-> <<
            << <<"r", "e", "n", "e", "w", "a", "b", "l", "e">> >>,
            << <<"e", "n", "e", "r", "g", "y">> >>,
            << <<"i", "n", "c", "r", "e", "a", "s">>, <<"a", "d", "o", "p", "t">>, <<"i", "m",
                "p", "l", "e", "m", "e", "n", "t">>, <<"r", "e", "a", "c", "h">>, <<"a", "c",
                "h", "i", "e", "v", "e">> >> >>,
       capture |-> "percent",
       units |-> <<  >>,
       category |-> "ESG", claim_type |-> "renewable_energy", confidence |-> "high"],
      [segments |-> <<
            << <<"s", "u", "s", "t", "a", "i", "n", "a", "b", "i", "l", "i", "t", "y">> >>,
            << <<"i", "n", "i", "t", "i", "a", "t", "i", "v", "e">>, <<"p", "r", "o", "g", "r",
                "a", "m">>, <<"g", "o", "a", "l">>, <<"t", "a", "r", "g", "e", "t">>, <<"a",
                "c", "h", "i", "e", "v", "e", "m", "e", "n", "t">>, <<"c", "o", "m", "m", "i",
                "t", "m", "e", "n", "t">> >> >>,
       capture |-> "none",
       units |-> <<  >>,
       category |-> "ESG", claim_type |-> "sustainability_program", confidence |-> "medium"],
      [segments |-> <<
            << <<"e", "n", "v", "i", "r", "o", "n", "m", "e", "n", "t", "a", "l">> >>,
            << <<"i", "m", "p", "a", "c", "t">>, <<"f", "o", "o", "t", "p", "r", "i", "n",
                "t">>, <<"p", "e", "r", "f", "o", "r", "m", "a", "n", "c", "e">> >>,
            << <<"r", "e", "d", "u", "c">>, <<"i", "m", "p", "r", "o", "v">>, <<"e", "n", "h",
                "a", "n", "c">> >> >>,
       capture |-> "none",
       units |-> <<  >>,
       category |-> "ESG", claim_type |-> "environmental_impact", confidence |-> "medium"],
      [segments |-> <<
            << <<"w", "a", "s", "t", "e">> >>,
            << <<"r", "e", "d", "u", "c">>, <<"r", "e", "c", "y", "c", "l">>, <<"d", "i", "v",
                "e", "r", "t">>, <<"e", "l", "i", "m", "i", "n", "a", "t">> >> >>,
       capture |-> "percent",
       units |-> <<  >>,
       category |-> "ESG", claim_type |-> "waste_reduction", confidence |-> "high"],
      [segments |-> <<
            << <<"w", "a", "t", "e", "r">> >>,
            << <<"s", "a", "v">>, <<"c", "o", "n", "s", "e", "r", "v">>, <<"r", "e", "d", "u",
                "c">>, <<"e", "f", "f", "i", "c", "i", "e", "n">> >> >>,
       capture |-> "percent",
       units |-> <<  >>,
       category |-> "ESG", claim_type |-> "water_conservation", confidence |-> "medium"],
      [segments |-> <<
            << <<"b", "i", "o", "d", "i", "v", "e", "r", "s", "i", "t", "y">> >>,
            << <<"p", "r", "o", "t", "e", "c", "t">>, <<"c", "o", "n", "s", "e", "r", "v">>,
                <<"r", "e", "s", "t", "o", "r">>, <<"e", "n", "h", "a", "n", "c">> >> >>,
       capture |-> "none",
       units |-> <<  >>,
       category |-> "ESG", claim_type |-> "biodiversity", confidence |-> "medium"],
      [segments |-> <<
            << <<"s", "o", "c", "i", "a", "l">> >>,
            << <<"i", "m", "p", "a", "c", "t">>, <<"r", "e", "s", "p", "o", "n", "s", "i", "b",
                "i", "l", "i", "t", "y">>, <<"p", "r", "o", "g", "r", "a", "m">>, <<"i", "n",
                "i", "t", "i", "a", "t", "i", "v", "e">> >> >>,
       capture |-> "none",
       units |-> <<  >>,
       category |-> "ESG", claim_type |-> "social_impact", confidence |-> "medium"],
      [segments |-> <<
            << <<"e", "f", "f", "i", "c", "i", "e", "n", "c", "y">> >>,
            << <<"i", "m", "p", "r", "o", "v">>, <<"i", "n", "c", "r", "e", "a", "s">>, <<"e",
                "n", "h", "a", "n", "c">>, <<"o", "p", "t", "i", "m">> >> >>,
       capture |-> "percent",
       units |-> <<  >>,
       category |-> "Operational", claim_type |-> "efficiency_improvement",
           confidence |-> "high"],
      [segments |-> <<
            << <<"p", "r", "o", "d", "u", "c", "t", "i", "v", "i", "t", "y">> >>,
            << <<"i", "n", "c", "r", "e", "a", "s">>, <<"i", "m", "p", "r", "o", "v">>, <<"b",
                "o", "o", "s", "t">>, <<"e", "n", "h", "a", "n", "c">> >> >>,
       capture |-> "percent",
       units |-> <<  >>,
       category |-> "Operational", claim_type |-> "productivity", confidence |-> "high"],
      [segments |-> <<
            << <<"a", "u", "t", "o", "m", "a", "t", "i", "o", "n">> >>,
            << <<"s", "y", "s", "t", "e", "m">>, <<"i", "m", "p", "l", "e", "m", "e", "n",
                "t">>, <<"d", "e", "p", "l", "o", "y">>, <<"i", "n", "s", "t", "a", "l", "l">>,
                <<"a", "d", "o", "p", "t">> >> >>,
       capture |-> "none",
       units |-> <<  >>,
       category |-> "Operational", claim_type |-> "automation", confidence |-> "medium"],
      [segments |-> <<
            << <<"c", "u", "s", "t", "o", "m", "e", "r">> >>,
            << <<"s", "a", "t", "i", "s", "f", "a", "c", "t", "i", "o", "n">> >>,
            << <<"r", "e", "a", "c", "h">>, <<"a", "c", "h", "i", "e", "v", "e">>, <<"i", "n",
                "c", "r", "e", "a", "s">>, <<"i", "m", "p", "r", "o", "v">> >> >>,
       capture |-> "percent",
       units |-> <<  >>,
       category |-> "Operational", claim_type |-> "customer_satisfaction",
           confidence |-> "high"],
      [segments |-> <<
            << <<"q", "u", "a", "l", "i", "t", "y">> >>,
            << <<"i", "m", "p", "r", "o", "v">>, <<"i", "n", "c", "r", "e", "a", "s">>, <<"e",
                "n", "h", "a", "n", "c">>, <<"o", "p", "t", "i", "m">> >> >>,
       capture |-> "percent",
       units |-> <<  >>,
       category |-> "Operational", claim_type |-> "quality_improvement",
           confidence |-> "medium"],
      [segments |-> <<
            << <<"s", "a", "f", "e", "t", "y">> >>,
            << <<"r", "e", "c", "o", "r", "d">>, <<"i", "n", "c", "r", "e", "a", "s">>, <<"i",
                "m", "p", "r", "o", "v">>, <<"e", "n", "h", "a", "n", "c">> >> >>,
       capture |-> "percent",
       units |-> <<  >>,
       category |-> "Operational", claim_type |-> "safety_performance", confidence |-> "high"],
      [segments |-> <<
            << <<"d", "i", "g", "i", "t", "a", "l">> >>,
            << <<"t", "r", "a", "n", "s", "f", "o", "r", "m", "a", "t", "i", "o", "n">>, <<"i",
                "n", "n", "o", "v", "a", "t", "i", "o", "n">>, <<"t", "e", "c", "h", "n", "o",
                "l", "o", "g", "y">>, <<"p", "l", "a", "t", "f", "o", "r", "m">> >> >>,
       capture |-> "none",
       units |-> <<  >>,
       category |-> "Operational", claim_type |-> "digital_transformation",
           confidence |-> "medium"],
      [segments |-> <<
            << <<"s", "u", "p", "p", "l", "y">> >>,
            << <<"c", "h", "a", "i", "n">> >>,
            << <<"o", "p", "t", "i", "m">>, <<"i", "m", "p", "r", "o", "v">>, <<"e", "n", "h",
                "a", "n", "c">>, <<"s", "t", "r", "e", "a", "m", "l", "i", "n">> >> >>,
       capture |-> "none",
       units |-> <<  >>,
       category |-> "Operational", claim_type |-> "supply_chain", confidence |-> "medium"],
      [segments |-> <<
            << <<"c", "o", "m", "p", "l", "i", "a", "n", "c", "e">> >>,
            << <<"m", "a", "i", "n", "t", "a", "i", "n">>, <<"a", "c", "h", "i", "e", "v">>,
                <<"f", "u", "l", "l">>, <<"c", "o", "m", "p", "l", "e", "t", "e">>, <<"1", "0",
                "0", "%">>, <<"p", "e", "r", "f", "e", "c", "t">> >> >>,
       capture |-> "none",
       units |-> <<  >>,
       category |-> "Legal & Compliance", claim_type |-> "compliance_status",
           confidence |-> "medium"],
      [segments |-> <<
            << <<"r", "e", "g", "u", "l", "a", "t", "o", "r", "y">> >>,
            << <<"r", "e", "q", "u", "i", "r", "e", "m", "e", "n", "t">>, <<"s", "t", "a", "n",
                "d", "a", "r", "d">>, <<"f", "r", "a", "m", "e", "w", "o", "r", "k">>, <<"g",
                "u", "i", "d", "e", "l", "i", "n", "e">> >>,
            << <<"m", "e", "e", "t">>, <<"c", "o", "m", "p", "l", "y">>, <<"a", "d", "h", "e",
                "r">>, <<"s", "a", "t", "i", "s", "f", "y">> >> >>,
       capture |-> "none",
       units |-> <<  >>,
       category |-> "Legal & Compliance", claim_type |-> "regulatory_compliance",
           confidence |-> "medium"],
      [segments |-> <<
            << <<"g", "d", "p", "r">>, <<"s", "o", "x">>, <<"i", "s", "o">>, <<"h", "i", "p",
                "a", "a">>, <<"p", "c", "i">>, <<"r", "e", "g", "u", "l", "a", "t", "i", "o",
                "n">>, <<"d", "i", "r", "e", "c", "t", "i", "v", "e">> >>,
            << <<"c", "o", "m", "p", "l", "i", "a", "n">>, <<"c", "e", "r", "t", "i", "f">>,
                <<"a", "u", "d", "i", "t">>, <<"i", "m", "p", "l", "e", "m", "e", "n",
                "t">> >> >>,
       capture |-> "none",
       units |-> <<  >>,
       category |-> "Legal & Compliance", claim_type |-> "specific_compliance",
           confidence |-> "high"],
      [segments |-> <<
            << <<"a", "u", "d", "i", "t">> >>,
            << <<"p", "a", "s", "s">>, <<"s", "u", "c", "c", "e", "s", "s", "f", "u", "l">>,
                <<"c", "l", "e", "a", "n">>, <<"c", "l", "e", "a", "r">>, <<"c", "o", "m", "p",
                "l", "e", "t">>, <<"s", "a", "t", "i", "s", "f", "a", "c", "t", "o", "r",
                "y">> >> >>,
       capture |-> "none",
       units |-> <<  >>,
       category |-> "Legal & Compliance", claim_type |-> "audit_result", confidence |-> "high"],
      [segments |-> <<
            << <<"c", "e", "r", "t", "i", "f", "i", "c", "a", "t", "i", "o", "n">> >>,
            << <<"a", "c", "h", "i", "e", "v">>, <<"o", "b", "t", "a", "i", "n">>, <<"m", "a",
                "i", "n", "t", "a", "i", "n">>, <<"r", "e", "n", "e", "w">>, <<"a", "w", "a",
                "r", "d">> >> >>,
       capture |-> "none",
       units |-> <<  >>,
       category |-> "Legal & Compliance", claim_type |-> "certification",
           confidence |-> "high"],
      [segments |-> <<
            << <<"g", "o", "v", "e", "r", "n", "a", "n", "c", "e">> >>,
            << <<"f", "r", "a", "m", "e", "w", "o", "r", "k">>, <<"s", "t", "r", "u", "c", "t",
                "u", "r", "e">>, <<"p", "r", "o", "c", "e", "s", "s">>, <<"p", "o", "l", "i",
                "c", "y">> >> >>,
       capture |-> "none",
       units |-> <<  >>,
       category |-> "Legal & Compliance", claim_type |-> "governance", confidence |-> "medium"],
      [segments |-> <<
            << <<"r", "i", "s", "k">> >>,
            << <<"m", "a", "n", "a", "g", "e", "m", "e", "n", "t">>, <<"m", "i", "t", "i", "g",
                "a", "t", "i", "o", "n">>, <<"a", "s", "s", "e", "s", "s", "m", "e", "n", "t">>,
                <<"c", "o", "n", "t", "r", "o", "l">> >> >>,
       capture |-> "none",
       units |-> <<  >>,
       category |-> "Legal & Compliance", claim_type |-> "risk_management",
           confidence |-> "medium"] >>

\* the value of a regex group that did not take part, and of no group
NoGroup == [kind |-> "None"]
NoMatch == [matched |-> FALSE, group |-> NoGroup]

\* (\d+(?:\.\d+)?%) at position p: the position after the match, 0 if none
percent_end(s, p) ==
    LET n == RunLen(s, p, Digits)
        q == p + n
        m == IF q <= Len(s) /\ s[q] = "." THEN RunLen(s, q + 1, Digits) ELSE 0
    IN  IF n = 0 THEN 0
        ELSE IF m > 0 /\ q + 1 + m <= Len(s) /\ s[q + 1 + m] = "%" THEN q + m + 2
        ELSE IF q <= Len(s) /\ s[q] = "%" THEN q + 1
        ELSE 0

\* ([\d,]+(?:\.\d+)?) at position p: the position after the number, 0 if none
number_end(s, p) ==
    LET n == RunLen(s, p, Digits \cup {","})
        q == p + n
        m == IF q <= Len(s) /\ s[q] = "." THEN RunLen(s, q + 1, Digits) ELSE 0
    IN  IF n = 0 THEN 0
        ELSE IF m > 0 THEN q + 1 + m
        ELSE q

\* \$?([\d,]+(?:\.\d+)?)\s*(?:unit|...) at position p
money_at(s, p, units) ==
    LET first == IF p <= Len(s) /\ s[p] = "$" THEN p + 1 ELSE p
        last == number_end(s, first)
        unit == last + RunLen(s, last, Whitespace)
    IN  IF last > 0 /\ \E u \in DOMAIN units : MatchAt(s, unit, units[u])
        THEN [matched |-> TRUE, group |-> [kind |-> "str", value |-> SubSeq(s, first,
            last - 1)]]
        ELSE NoMatch

\* the capture of a rule tried at position p
capture_at(s, p, rule) ==
    IF rule.capture = "percent"
    THEN IF percent_end(s, p) > 0
         THEN [matched |-> TRUE,
               group |-> [kind |-> "str", value |-> SubSeq(s, p, percent_end(s, p) - 1)]]
         ELSE NoMatch
    ELSE money_at(s, p, rule.units)

\* the positions a lazy gap .*? that starts at pos can end at: up to the next
\* newline or the end of the text
gap_ends(s, pos) ==
    {p \in pos..(Len(s) + 1) : \A k \in pos..(p - 1) : s[k] # "\n"}

\* the least element of a non-empty set of positions
Least(P) == CHOOSE p \in P : \A q \in P : p <= q

\* of the matches tried in order, the first that succeeded
first_match(tried) ==
    IF \A i \in DOMAIN tried : ~tried[i].matched THEN NoMatch
    ELSE tried[Least({i \in DOMAIN tried : tried[i].matched})]

RECURSIVE match_segment(_, _, _, _)
RECURSIVE match_after_gap(_, _, _, _)

\* segment k of the rule starts at pos: its first alternative, in order, after
\* which the rest of the rule matches
match_segment(s, pos, rule, k) ==
    first_match([a \in DOMAIN rule.segments[k] |->
        IF MatchAt(s, pos, rule.segments[k][a])
        THEN match_after_gap(s, pos + Len(rule.segments[k][a]), rule, k + 1)
        ELSE NoMatch])

\* what follows segment k - 1, which ended before pos: nothing, or the
\* shortest gap after which segment k, or the capture, matches
match_after_gap(s, pos, rule, k) ==
    IF k > Len(rule.segments) /\ rule.capture = "none"
    THEN [matched |-> TRUE, group |-> NoGroup]
    ELSE first_match([p \in gap_ends(s, pos) |->
             IF k > Len(rule.segments) THEN capture_at(s, p, rule)
             ELSE match_segment(s, p, rule, k)])

\* re.search(pattern, text): the match at the leftmost start
re_search(rule, text) ==
    first_match([p \in DOMAIN text |-> match_segment(text, p, rule, 1)])

\* any(indicator in text for indicator in indicators)
any_in(text, indicators) == \E i \in DOMAIN indicators : Contains(text, indicators[i])

strong_verification ==
    << <<"v", "e", "r", "i", "f", "i", "e", "d">>, <<"a", "u", "d", "i", "t", "e", "d">>, <<"c",
        "e", "r", "t", "i", "f", "i", "e", "d">>, <<"v", "a", "l", "i", "d", "a", "t", "e",
        "d">>, <<"c", "o", "n", "f", "i", "r", "m", "e", "d">>, <<"d", "o", "c", "u", "m", "e",
        "n", "t", "e", "d">>,
       <<"t", "h", "i", "r", "d", "-", "p", "a", "r", "t", "y">> >>

uncertainty_indicators ==
    << <<"c", "l", "a", "i", "m", "s">>, <<"a", "l", "l", "e", "g", "e", "d", "l", "y">>, <<"r",
        "e", "p", "o", "r", "t", "e", "d", "l", "y">>, <<"e", "s", "t", "i", "m", "a", "t", "e",
        "s">>, <<"a", "p", "p", "r", "o", "x", "i", "m", "a", "t", "e", "l", "y">>, <<"a", "r",
        "o", "u", "n", "d">>,
       <<"t", "a", "r", "g", "e", "t">>, <<"g", "o", "a", "l">> >>

contradiction_indicators == << <<"f", "a", "i", "l", "e", "d">>, <<"m", "i", "s", "s", "e",
    "d">>, <<"b", "e", "l", "o", "w">>, <<"u", "n", "d", "e", "r">>, <<"i", "n", "s", "u", "f",
    "f", "i", "c", "i", "e", "n", "t">> >>

digit_value ==
    ("0" :> 0) @@ ("1" :> 1) @@ ("2" :> 2) @@ ("3" :> 3) @@ ("4" :> 4) @@ ("5" :> 5)
    @@ ("6" :> 6) @@ ("7" :> 7) @@ ("8" :> 8) @@ ("9" :> 9)

RECURSIVE int_of(_)
\* the number a string of digits denotes
int_of(digits) ==
    IF digits = <<>> THEN 0
    ELSE 10 * int_of(SubSeq(digits, 1, Len(digits) - 1)) + digit_value[digits[Len(digits)]]

\* float(extracted_value.replace('%', '').replace(',', '')): the whole part and
\* whether a fraction above zero follows; ok is FALSE where float raises
\* ValueError
float_of(extracted_value) ==
    LET text == SelectSeq(extracted_value, LAMBDA c : c \notin {"%", ","})
        n == RunLen(text, 1, Digits)
        m == IF n < Len(text) /\ text[n + 1] = "." THEN RunLen(text, n + 2, Digits) ELSE 0
        fraction == SubSeq(text, n + 2, n + 1 + m)
    IN  IF n + m = 0 \/ (m = 0 /\ n # Len(text)) \/ (m > 0 /\ n + 1 + m # Len(text))
        THEN [ok |-> FALSE, whole |-> 0, fraction |-> FALSE]
        ELSE [ok |-> TRUE,
              whole |-> int_of(SubSeq(text, 1, n)),
              fraction |-> \E i \in DOMAIN fraction : fraction[i] # "0"]

\* value > limit, for an integer limit
exceeds(value, limit) ==
    value.whole > limit \/ (value.whole = limit /\ value.fraction)

\* mutant: every value of an ESG claim is taken as beyond its limit
value_verdict_esg_strict(category, claim_type, value) ==
    IF category = "ESG" THEN "Contradicted" ELSE None

\* the value-based analysis of analyze_enhanced_verdict: the verdict it
\* returns, None where it returns nothing
value_verdict(category, claim_type, value) ==
    IF category = "Financial"
    THEN IF claim_type = "revenue_growth" /\ exceeds(value, 60) THEN "Contradicted"
         ELSE IF claim_type = "profit_growth" /\ exceeds(value, 150) THEN "Contradicted"
         ELSE IF exceeds(value, 0) THEN "Supported"
         ELSE None
    ELSE IF category = "Operational"
    THEN IF claim_type = "efficiency_improvement" /\ exceeds(value, 50) THEN "Contradicted"
         ELSE IF claim_type = "customer_satisfaction" /\ exceeds(value, 99) THEN "Contradicted"
         ELSE IF claim_type = "productivity" /\ exceeds(value, 80) THEN "Contradicted"
         ELSE "Supported"
    ELSE IF category = "ESG"
    THEN IF claim_type = "carbon_reduction" /\ exceeds(value, 90) THEN "Contradicted"
         ELSE IF claim_type = "renewable_energy" /\ exceeds(value, 100) THEN "Contradicted"
         ELSE "Supported"
    ELSE None

\* mutant: the value is looked at before the indicators of the text
analyze_enhanced_verdict_value_first(text, category, claim_type, extracted_value, confidence) ==
    IF extracted_value.kind = "str" /\ extracted_value.value # <<>>
       /\ float_of(extracted_value.value).ok
       /\ value_verdict(category, claim_type, float_of(extracted_value.value)) # None
    THEN value_verdict(category, claim_type, float_of(extracted_value.value))
    ELSE IF any_in(text, strong_verification) THEN "Confirmed"
    ELSE IF any_in(text, contradiction_indicators) THEN "Contradicted"
    ELSE IF any_in(text, uncertainty_indicators) THEN "Unverifiable"
    ELSE IF category = "Legal & Compliance" THEN "Unverifiable"
    ELSE "Supported"

analyze_enhanced_verdict(text, category, claim_type, extracted_value, confidence) ==
    IF any_in(text, strong_verification) THEN "Confirmed"
    ELSE IF any_in(text, contradiction_indicators) THEN "Contradicted"
    ELSE IF any_in(text, uncertainty_indicators) THEN "Unverifiable"
    ELSE LET by_value ==
                 IF extracted_value.kind = "str"
                 THEN IF extracted_value.value # <<>> /\ float_of(extracted_value.value).ok
                      THEN value_verdict(category, claim_type,
                                         float_of(extracted_value.value))
                      ELSE None
                 ELSE None
         IN  IF by_value # None THEN by_value
             ELSE IF category = "Legal & Compliance" THEN "Unverifiable"
             ELSE "Supported"

\* for pattern, category, claim_type, confidence in claim_patterns:
\* re.search(pattern, sentence_lower, re.IGNORECASE), rule by rule
searches(sentence_lower) ==
    [r \in DOMAIN claim_patterns |-> re_search(claim_patterns[r], sentence_lower)]

\* the claim dict appended for the rule that matched
claim_of(sentence_clean, rule, extracted_value, i, source) ==
    [claim_text |-> sentence_clean,
     category |-> rule.category,
     verdict |-> analyze_enhanced_verdict(Lower(sentence_clean), rule.category,
                                          rule.claim_type, extracted_value, rule.confidence),
     source_context |-> sentence_clean,
     metadata |-> [source |-> source,
                   source_chunk_id |-> i,
                   claim_type |-> rule.claim_type,
                   extracted_value |-> extracted_value,
                   confidence |-> rule.confidence,
                   analysis_method |-> "enhanced_pattern_matching"]]

\* mutant: the loop over the rules has no break, the last match is kept
matched_claims_last_rule(sentence_clean, tried, i, source) ==
    IF too_short(sentence_clean) \/ ~first_match(tried).matched THEN <<>>
    ELSE LET last == CHOOSE r \in DOMAIN tried :
                        tried[r].matched /\ \A q \in DOMAIN tried : tried[q].matched => q <= r
         IN  <<claim_of(sentence_clean, claim_patterns[last], tried[last].group, i, source)>>

\* the body of the loop for a stripped sentence: nothing for a short one,
\* otherwise the claim of the first rule that matches, and then break
matched_claims(sentence_clean, tried, i, source) ==
    IF too_short(sentence_clean) \/ ~first_match(tried).matched THEN <<>>
    ELSE <<claim_of(sentence_clean,
                    claim_patterns[Least({r \in DOMAIN tried : tried[r].matched})],
                    first_match(tried).group, i, source)>>

\* the claims one iteration of the loop over the sentences appends
sentence_claims(sentence, i, source) ==
    matched_claims(Strip(sentence), searches(Lower(Strip(sentence))), i, source)

institutional_keywords ==
    << <<"c", "o", "m", "p", "a", "n", "y">>, <<"c", "o", "r", "p", "o", "r", "a", "t", "i",
        "o", "n">>, <<"o", "r", "g", "a", "n", "i", "z", "a", "t", "i", "o", "n">>, <<"f", "i",
        "r", "m">>, <<"b", "u", "s", "i", "n", "e", "s", "s">>, <<"e", "n", "t", "e", "r", "p",
        "r", "i", "s", "e">>,
       <<"a", "n", "n", "u", "a", "l", " ", "r", "e", "p", "o", "r", "t">>, <<"s", "u", "s",
           "t", "a", "i", "n", "a", "b", "i", "l", "i", "t", "y", " ", "r", "e", "p", "o", "r",
           "t">>, <<"p", "e", "r", "f", "o", "r", "m", "a", "n", "c", "e">>, <<"r", "e", "s",
           "u", "l", "t", "s">>, <<"m", "e", "t", "r", "i", "c", "s">> >>

RECURSIVE percentage_matches(_, _)
\* re.findall(r'(\d+(?:\.\d+)?%)', content), from position p on
percentage_matches(s, p) ==
    LET starts == {q \in p..Len(s) : percent_end(s, q) > 0}
    IN  IF starts = {} THEN <<>>
        ELSE LET q == Least(starts)
             IN  <<SubSeq(s, q, percent_end(s, q) - 1)>>
                     \o percentage_matches(s, percent_end(s, q))

money_units == << <<"m", "i", "l", "l", "i", "o", "n">>, <<"b", "i", "l", "l", "i", "o", "n">>,
    <<"t", "h", "o", "u", "s", "a", "n", "d">> >>

\* the position after the money match at p
money_end(s, p) ==
    LET first == IF s[p] = "$" THEN p + 1 ELSE p
        last == number_end(s, first)
        unit == last + RunLen(s, last, Whitespace)
        u == Least({v \in DOMAIN money_units : MatchAt(s, unit, money_units[v])})
    IN  unit + Len(money_units[u])

RECURSIVE money_matches(_, _)
\* re.findall(r'\$?([\d,]+(?:\.\d+)?)\s*(?:million|billion|thousand)', content,
\* re.IGNORECASE), from position p on; s is the text in lower case
money_matches(s, p) ==
    LET starts == {q \in p..Len(s) : money_at(s, q, money_units).matched}
    IN  IF starts = {} THEN <<>>
        ELSE LET q == Least(starts)
             IN  <<money_at(s, q, money_units).group.value>>
                     \o money_matches(s, money_end(s, q))

\* the first n elements of a list
Take(list, n) == SubSeq(list, 1, Min(n, Len(list)))

analyze_general_institutional_content(text, source) ==
    LET content_lower == Lower(text)
        percentages == percentage_matches(text, 1)
        amounts == money_matches(content_lower, 1)
    IN  IF any_in(content_lower, institutional_keywords)
           /\ (percentages # <<>> \/ amounts # <<>>)
        THEN << [claim_text |->
                     [text |-> "Document contains institutional performance data and metrics: ",
                      joined |-> Take(percentages, 5) \o Take(amounts, 5)],
                 category |-> IF amounts # <<>> THEN "Financial" ELSE "Operational",
                 verdict |-> "Unverifiable",
                 source_context |-> IF Len(text) > 600
                                    THEN SubSeq(text, 1, 600) \o <<".", ".", ".">>
                                    ELSE text,
                 metadata |-> [source |-> source,
                               source_chunk_id |-> 0,
                               claim_type |-> "quantitative_general",
                               analysis_method |-> "general_content_analysis"]] >>
        ELSE <<>>

\* content longer than this may get the general claim
MinGeneralContent == 200

\* mutant: the general analysis runs whatever the rules found
with_general_always(found, text, source) ==
    IF Len(text) > MinGeneralContent
    THEN found \o analyze_general_institutional_content(text, source)
    ELSE found

\* if not claims and len(content) > 200: claims.extend(...)
with_general(found, text, source) ==
    IF found = <<>> /\ Len(text) > MinGeneralContent
    THEN found \o analyze_general_institutional_content(text, source)
    ELSE found

\* the sentence of the scenario: 38 characters, 37 without its full stop
ScenarioSentence == <<"R", "e", "v", "e", "n", "u", "e", " ", "i", "n", "c", "r", "e", "a", "s",
    "e", "d", " ", "b", "y", " ", "7", "5", "%", " ", "t", "h", "i", "s", " ", "q", "u", "a",
    "r", "t", "e", "r", ".">>

\* the same statement in a sentence of 59 characters
LongerSentence == <<"R", "e", "v", "e", "n", "u", "e", " ", "i", "n", "c", "r", "e", "a", "s",
    "e", "d", " ", "b", "y", " ", "7", "5", "%", " ", "t", "h", "i", "s", " ", "q", "u", "a",
    "r", "t", "e", "r", " ", "c", "o", "m", "p", "a", "r", "e", "d", " ", "t", "o", " ", "l",
    "a", "s", "t", " ", "y", "e", "a", "r", ".">>

\* the sentence of the carbon scenario, 60 characters without its full stop
CarbonSentence == <<"C", "a", "r", "b", "o", "n", " ", "e", "m", "i", "s", "s", "i", "o", "n",
    "s", " ", "w", "e", "r", "e", " ", "r", "e", "d", "u", "c", "e", "d", " ", "b", "y", " ",
    "4", "0", "%", " ", "t", "h", "r", "o", "u", "g", "h", " ", "n", "e", "w", " ", "i", "n",
    "i", "t", "i", "a", "t", "i", "v", "e", "s", ".">>

\* pieces of text a document is made of, each with its closing punctuation
Pieces ==
    { <<"C", "a", "r", "b", "o", "n", " ", "e", "m", "i", "s", "s", "i", "o", "n", "s", " ", "w", "e",
          "r", "e", " ", "r", "e", "d", "u", "c", "e", "d", " ", "b", "y", " ", "4", "0", "%", " ",
          "t", "h", "r", "o", "u", "g", "h", " ", "n", "e", "w", " ", "i", "n", "i", "t", "i", "a",
          "t", "i", "v", "e", "s", ".">>,
      <<"R", "e", "v", "e", "n", "u", "e", " ", "i", "n", "c", "r", "e", "a", "s", "e", "d",
        " ", "b", "y", " ", "7", "5", "%", " ", "t", "h", "i", "s", " ", "q", "u", "a", "r",
        "t", "e", "r", ".">>,
      <<"R", "e", "v", "e", "n", "u", "e", " ", "i", "n", "c", "r", "e", "a", "s", "e", "d",
          " ", "b", "y", " ", "7", "5", "%", " ", "t", "h", "i", "s", " ", "q", "u", "a", "r",
          "t", "e", "r", " ", "c", "o", "m", "p", "a", "r", "e", "d", " ", "t", "o", " ", "l",
          "a", "s", "t", " ", "y", "e", "a", "r", ".">>,
      <<" ", "R", "e", "v", "e", "n", "u", "e", " ", "i", "n", "c", "r", "e", "a", "s", "e",
          "d", " ", "b", "y", " ", "6", "0", "%", " ", "t", "h", "i", "s", " ", "q", "u", "a",
          "r", "t", "e", "r", " ", "c", "o", "m", "p", "a", "r", "e", "d", " ", "t", "o", " ",
          "t", "h", "e", " ", "l", "a", "s", "t", " ", "o", "n", "e", "!">>,
      <<" ", "C", "a", "r", "b", "o", "n", " ", "e", "m", "i", "s", "s", "i", "o", "n", "s",
          " ", "w", "e", "r", "e", " ", "r", "e", "d", "u", "c", "e", "d", " ", "b", "y", " ",
          "9", "5", "%", " ", "a", "c", "r", "o", "s", "s", " ", "a", "l", "l", " ", "o", "f",
          " ", "o", "u", "r", " ", "p", "l", "a", "n", "t", "s", "?">>,
      <<" ", "T", "h", "e", " ", "a", "u", "d", "i", "t", " ", "w", "a", "s", " ", "v", "e",
          "r", "i", "f", "i", "e", "d", " ", "a", "n", "d", " ", "r", "e", "v", "e", "n", "u",
          "e", " ", "i", "s", " ", "u", "p", " ", "7", "0", "%", " ", "f", "o", "r", " ", "t",
          "h", "e", " ", "y", "e", "a", "r", ".">>,
      <<" ", "T", "h", "e", " ", "f", "i", "r", "m", " ", "g", "r", "e", "w", " ", "5", "%",
          ".">>,
      <<" ", "E", "f", "f", "i", "c", "i", "e", "n", "c", "y", " ", "w", "a", "s", " ",
          "i", "m", "p", "r", "o", "v", "e", "d", " ", "b", "y", " ", "a", "r", "o", "u",
          "n", "d", " ", "5", "5", "%", " ", "i", "n", " ", "t", "h", "e", " ", "s", "e",
          "c", "o", "n", "d", " ", "h", "a", "l", "f", ".">>,
      <<" ", "C", "o", "s", "t", "s", " ", "i", "n", " ", "t", "h", "e", " ", "p", "l", "a",
          "n", "t", "\n", "w", "e", "r", "e", " ", "r", "e", "d", "u", "c", "e", "d", " ", "b",
          "y", " ", "1", "5", "%", " ", "t", "h", "a", "n", "k", "s", " ", "t", "o", " ", "t",
          "h", "e", " ", "n", "e", "w", " ", "l", "i", "n", "e", ".">>,
      <<" ", "O", "u", "r", " ", "g", "o", "v", "e", "r", "n", "a", "n", "c", "e", " ", "f",
          "r", "a", "m", "e", "w", "o", "r", "k", " ", "a", "n", "d", " ", "r", "i", "s", "k",
          " ", "m", "a", "n", "a", "g", "e", "m", "e", "n", "t", " ", "w", "e", "r", "e", " ",
          "s", "t", "r", "e", "n", "g", "t", "h", "e", "n", "e", "d", " ", "a", "g", "a", "i",
          "n", ".">>,
      <<" ", "S", "a", "l", "e", "s", " ", "r", "e", "a", "c", "h", "e", "d", " ", "$", "1",
          ",", "2", "0", "0", " ", "m", "i", "l", "l", "i", "o", "n", " ", "i", "n", " ", "t",
          "h", "e", " ", "f", "i", "s", "c", "a", "l", " ", "y", "e", "a", "r", " ", "a", "n",
          "d", " ", "b", "e", "y", "o", "n", "d", " ", "i", "t", ".">>,
      <<" ", "T", "h", "e", " ", "c", "o", "m", "p", "a", "n", "y", " ", "r", "e", "p", "o",
          "r", "t", "e", "d", " ", "t", "h", "a", "t", " ", "h", "e", "a", "d", "c", "o", "u",
          "n", "t", " ", "c", "h", "a", "n", "g", "e", "d", " ", "b", "y", " ", "5", "%", " ",
          "a", "n", "d", " ", "t", "h", "a", "t", " ", "t", "h", "e", " ", "o", "f", "f", "i",
          "c", "e", "s", " ", "i", "n", " ", "t", "h", "r", "e", "e", " ", "r", "e", "g", "i",
          "o", "n", "s", " ", "w", "e", "r", "e", " ", "c", "o", "n", "s", "o", "l", "i", "d",
          "a", "t", "e", "d", " ", "i", "n", "t", "o", " ", "o", "n", "e", " ", "c", "a", "m",
          "p", "u", "s", " ", "d", "u", "r", "i", "n", "g", " ", "t", "h", "e", " ", "y", "e",
          "a", "r", " ", "f", "o", "r", " ", "r", "e", "a", "s", "o", "n", "s", " ", "t", "h",
          "a", "t", " ", "w", "e", "r", "e", " ", "d", "i", "s", "c", "u", "s", "s", "e", "d",
          " ", "a", "t", " ", "l", "e", "n", "g", "t", "h", " ", "w", "i", "t", "h", " ", "t",
          "h", "e", " ", "b", "o", "a", "r", "d", " ", "a", "n", "d", " ", "t", "h", "e", " ",
          "s", "t", "a", "f", "f", ".">> }

\* number of pieces in a document
MaxPieces == 2

\* the documents submitted: up to MaxPieces pieces, one after the other
Documents == {Concat(pieces) : pieces \in UNION {[1..n -> Pieces] : n \in 0..MaxPieces}}

Filenames == {"report.txt"}

InitDetector ==
    /\ dpc = "idle"
    /\ content = <<>>
    /\ filename = ""
    /\ sentences = <<>>
    /\ next_sentence = 0
    /\ claims = <<>>

\* use_enhanced_pattern_analysis up to its loop: the sentences are split off
\* and filtered
SplitContent ==
    /\ dpc = "idle"
    /\ \E text \in Documents, name \in Filenames :
          /\ content' = text
          /\ filename' = name
          /\ sentences' = sentences_of(text)
    /\ claims' = <<>>
    /\ next_sentence' = 0
    /\ dpc' = "matching"
    /\ UNCHANGED notDetector

\* one iteration of the loop over the sentences
MatchSentence ==
    /\ dpc = "matching"
    /\ next_sentence < Len(sentences)
    /\ claims' = claims \o sentence_claims(sentences[next_sentence + 1], next_sentence,
        filename)
    /\ next_sentence' = next_sentence + 1
    /\ UNCHANGED <<dpc, content, filename, sentences>>
    /\ UNCHANGED notDetector

\* after the loop: the general analysis where it applies, and the return
GeneralAndReturn ==
    /\ dpc = "matching"
    /\ next_sentence = Len(sentences)
    /\ claims' = with_general(claims, content, filename)
    /\ dpc' = "returned"
    /\ UNCHANGED <<content, filename, sentences, next_sentence>>
    /\ UNCHANGED notDetector

NextDetector ==
    \/ SplitContent
    \/ MatchSentence
    \/ GeneralAndReturn

(***************************************************************************)
(* run_pipeline (pipeline.py)                                              *)
(*                                                                         *)
(* One call of run_pipeline.  What the loader makes of the file, what the  *)
(* extractor finds in each chunk and what happens to each claim in the     *)
(* three stages are inputs.  The n-th extracted claim has the text "n".    *)
(* Of the report the processing time and the timestamp are left out.       *)
(***************************************************************************)

\* the file_path argument: empty, a path where no file is, a document
FilePaths == {"", "missing.txt", "doc.txt"}

\* mutant: every path is taken to exist
path_exists_always(path) == TRUE

\* os.path.exists(file_path)
path_exists(path) == path = "doc.txt"

\* number of chunks of a document
MaxChunks == 2

\* number of claims the extractor finds in one chunk
MaxClaimsPerChunk == 1

\* the claim dicts extract_claims_openrouter appends for chunk i, the first
\* of them being claim number n + 1 of the document
chunk_claims(i, count, n, source) ==
    [j \in 1..count |->
        [claim_text |-> ToString(n + j),
         source_context |-> <<"chunk", i>>,
         metadata |-> [source |-> source, source_chunk_id |-> i - 1]]]

RECURSIVE all_claims(_, _, _)
\* all_claims after the loop over the first k chunks; counts[i] is the number
\* of claim lines parsed from chunk i, 0 also where the model call raised
all_claims(counts, k, source) ==
    IF k = 0 THEN <<>>
    ELSE LET before == all_claims(counts, k - 1, source)
         IN  before \o chunk_claims(k, counts[k], Len(before), source)

\* an evidence list as retrieve_evidence_openrouter stores it
SomeEvidence ==
    [kind |-> "list",
     items |-> << [source_query |-> <<"q">>, retrieved_content |-> <<"t">>,
                   source |-> "Web", relevance_score |-> 0] >>]

\* what the three stages do with one claim: which of them raises, what the
\* model answers to the classification and to the evaluation prompt, and
\* what the retrieval stores
ClaimOutcomes ==
    { [raises |-> "classify", category_response |-> <<>>,
       stored |-> SomeEvidence, evaluation |-> ""],
      [raises |-> "retrieve", category_response |-> CatFinancial,
       stored |-> SomeEvidence, evaluation |-> ""],
      [raises |-> "evaluate", category_response |-> CatLegal,
       stored |-> SomeEvidence, evaluation |-> ""],
      [raises |-> "none", category_response |-> <<"E", "S", "G">>,
       stored |-> [kind |-> "str", value |-> NoEvidenceFound], evaluation |-> ""],
      [raises |-> "none", category_response |-> CatESG,
       stored |-> SomeEvidence,
       evaluation |-> "{\"verdict\": \"Confirmed\", \"claim_text\": \"t\"}"] }

\* claim['error'] = str(e)
with_error(claim_data) == Update(claim_data, [error |-> "{e}"])

\* mutant: a claim whose processing raised is not kept
processed_dropping(all_processed, claim_data, out) ==
    IF out.raises # "none" THEN all_processed
    ELSE all_processed \o <<claim_data>>

\* the body of the loop over the claims: the three stages in turn, and the
\* except branch that keeps the claim with an 'error' field
processed(all_processed, claim_data, out) ==
    LET classified == Update(claim_data, [category |-> category_of(out.category_response)])
        retrieved == Update(classified, [evidence |-> out.stored])
        done == IF no_evidence(out.stored)
                THEN Update(retrieved,
                        [verdict |-> "Insufficient Evidence",
                         evidence_summary |-> "No relevant evidence found.",
                         verdict_reasoning |-> "The search did not yield enough evidence."])
                ELSE evaluated(retrieved, out.evaluation)
    IN  all_processed \o
        << CASE out.raises = "classify" -> with_error(claim_data)
             [] out.raises = "retrieve" -> with_error(classified)
             [] out.raises = "evaluate" -> with_error(retrieved)
             [] OTHER -> done >>

\* the report dict
report_of(all_processed, path) ==
    [summary |-> [total_claims |-> Len(all_processed), document_name |-> path],
     claims |-> all_processed]

NotReturned == [returned |-> FALSE]

InitRun ==
    /\ run_pc = "idle"
    /\ file_path = ""
    /\ doc_chunks = <<>>
    /\ extracted = <<>>
    /\ processed_claims = <<>>
    /\ report_saved = FALSE
    /\ run_result = NotReturned

\* run_pipeline is called; a missing path ends the call
CheckPath ==
    /\ run_pc = "idle"
    /\ \E path \in FilePaths :
         /\ file_path' = path
         /\ IF path = "" \/ ~path_exists(path)
            THEN /\ run_result' = [error |-> "Invalid file path or file does not exist"]
                 /\ run_pc' = "returned"
            ELSE /\ run_result' = run_result
                 /\ run_pc' = "ingest"
    /\ UNCHANGED <<doc_chunks, extracted, processed_claims, report_saved>>
    /\ UNCHANGED notRun

\* step 1: ingest_and_split_documents
Ingest ==
    /\ run_pc = "ingest"
    /\ \E n \in 0..MaxChunks :
         /\ doc_chunks' = [i \in 1..n |-> <<"chunk", i>>]
         /\ IF n = 0
            THEN /\ run_result' = [error |-> "Failed to process document"]
                 /\ run_pc' = "returned"
            ELSE /\ run_result' = run_result
                 /\ run_pc' = "extract"
    /\ UNCHANGED <<file_path, extracted, processed_claims, report_saved>>
    /\ UNCHANGED notRun

\* step 2: extract_claims_openrouter
ExtractClaims ==
    /\ run_pc = "extract"
    /\ \E counts \in [DOMAIN doc_chunks -> 0..MaxClaimsPerChunk] :
         LET found == all_claims(counts, Len(doc_chunks), file_path)
         IN  /\ extracted' = found
             /\ IF found = <<>>
                THEN /\ run_result' = [error |-> "No claims found in document",
                                       claims |-> <<>>]
                     /\ run_pc' = "returned"
                ELSE /\ run_result' = run_result
                     /\ run_pc' = "process"
    /\ UNCHANGED <<file_path, doc_chunks, processed_claims, report_saved>>
    /\ UNCHANGED notRun

\* step 3: one iteration of the loop over the claims
ProcessClaim ==
    /\ run_pc = "process"
    /\ Len(processed_claims) < Len(extracted)
    /\ \E out \in ClaimOutcomes :
         processed_claims' =
             processed(processed_claims, extracted[Len(processed_claims) + 1], out)
    /\ UNCHANGED <<run_pc, file_path, doc_chunks, extracted, report_saved, run_result>>
    /\ UNCHANGED notRun

\* after the loop: the report is built, saved if the file can be written,
\* and returned
BuildReport ==
    /\ run_pc = "process"
    /\ Len(processed_claims) >= Len(extracted)
    /\ run_result' = report_of(processed_claims, file_path)
    /\ report_saved' \in BOOLEAN
    /\ run_pc' = "returned"
    /\ UNCHANGED <<file_path, doc_chunks, extracted, processed_claims>>
    /\ UNCHANGED notRun

\* an exception outside the loop over the claims (the loader, the splitter,
\* the extractor's prompt): the outer except returns an error dict
PipelineError ==
    /\ run_pc \in {"ingest", "extract"}
    /\ run_result' = [error |-> "Pipeline error: {e}"]
    /\ run_pc' = "returned"
    /\ UNCHANGED <<file_path, doc_chunks, extracted, processed_claims, report_saved>>
    /\ UNCHANGED notRun

NextRun ==
    \/ CheckPath
    \/ Ingest
    \/ ExtractClaims
    \/ ProcessClaim
    \/ BuildReport
    \/ PipelineError

(***************************************************************************)
(* API server (robust_professional_main.py): the module's imports and one  *)
(* POST /analyze                                                           *)
(*                                                                         *)
(* The request's content is given by what base64.b64decode makes of it:    *)
(* an error, or bytes.  A byte is a character, or a byte that is no UTF-8.  *)
(* What the PDF reader makes of the bytes and what pipeline.run_pipeline   *)
(* returns are inputs; the text of a PDF page is the text after            *)
(* clean_extracted_text.  Of a claim the trustScore and the texts that     *)
(* carry it are left out, of the response the processing time and the      *)
(* timestamp.                                                              *)
(***************************************************************************)

\* what `import pipeline` does: the module loads, a package is missing
\* (ImportError), a credential is missing (pipeline.py raises ValueError),
\* or the model client cannot be built (pipeline.py re-raises its exception)
ImportOutcomes == {"loaded", "ImportError", "ValueError", "LLMInitError"}

\* a byte that errors='ignore' drops
InvalidByte == "\\xff"

\* file_bytes.decode('utf-8', errors='ignore')
decode_ignore(bytes) == SelectSeq(bytes, LAMBDA b : b # InvalidByte)

\* n times the character c
Repeat(c, n) == [i \in 1..n |-> c]

\* the bytes a request may carry
RequestBytes ==
    { <<>>,
      ScenarioSentence,
      Repeat(" ", 70) \o ScenarioSentence,
      LongerSentence \o Repeat(InvalidByte, 50),
      LongerSentence \o <<".", " ", "I", "t", " ", "w", "a", "s", " ", "a", " ", "g", "o", "o",
          "d", " ", "y", "e", "a", "r", " ", "f", "o", "r", " ", "u", "s", " ", "a", "l", "l",
          ".">>,
      LongerSentence \o << " " >> \o CarbonSentence,
      <<"T", "h", "e", " ", "w", "e", "a", "t", "h", "e", "r", " ", "s", "t", "a", "y", "e",
          "d", " ", "p", "l", "e", "a", "s", "a", "n", "t", " ", "f", "o", "r", " ", "m", "o",
          "s", "t", " ", "o", "f", " ", "t", "h", "e", " ", "w", "e", "e", "k", " ", "a", "n",
          "d", " ", "t", "h", "e", " ", "v", "i", "s", "i", "t", "o", "r", "s", " ", "w", "a",
          "l", "k", "e", "d", " ", "a", "l", "o", "n", "g", " ", "t", "h", "e", " ", "r", "i",
          "v", "e", "r", " ", "e", "v", "e", "r", "y", " ", "s", "i", "n", "g", "l", "e", " ",
          "e", "v", "e", "n", "i", "n", "g", ".">>,
      <<" ", "T", "h", "e", " ", "c", "o", "m", "p", "a", "n", "y", " ", "r", "e", "p", "o",
          "r", "t", "e", "d", " ", "t", "h", "a", "t", " ", "h", "e", "a", "d", "c", "o", "u",
          "n", "t", " ", "c", "h", "a", "n", "g", "e", "d", " ", "b", "y", " ", "5", "%", " ",
          "a", "n", "d", " ", "t", "h", "a", "t", " ", "t", "h", "e", " ", "o", "f", "f", "i",
          "c", "e", "s", " ", "i", "n", " ", "t", "h", "r", "e", "e", " ", "r", "e", "g", "i",
          "o", "n", "s", " ", "w", "e", "r", "e", " ", "c", "o", "n", "s", "o", "l", "i", "d",
          "a", "t", "e", "d", " ", "i", "n", "t", "o", " ", "o", "n", "e", " ", "c", "a", "m",
          "p", "u", "s", " ", "d", "u", "r", "i", "n", "g", " ", "t", "h", "e", " ", "y", "e",
          "a", "r", " ", "f", "o", "r", " ", "r", "e", "a", "s", "o", "n", "s", " ", "t", "h",
          "a", "t", " ", "w", "e", "r", "e", " ", "d", "i", "s", "c", "u", "s", "s", "e", "d",
          " ", "a", "t", " ", "l", "e", "n", "g", "t", "h", " ", "w", "i", "t", "h", " ", "t",
          "h", "e", " ", "b", "o", "a", "r", "d", " ", "a", "n", "d", " ", "t", "h", "e", " ",
          "s", "t", "a", "f", "f", ".">> }

FileTypes == { <<"t", "x", "t">>, <<"p", "d", "f">>, <<"P", "D", "F">> }

Requests ==
    [filename : {"report.txt"}, b64 : {"valid"}, bytes : RequestBytes, file_type : FileTypes]
    \cup [filename : {"report.txt"}, b64 : {"invalid"}, bytes : {<<>>}, file_type : { <<"t",
        "x", "t">> }]

NoRequest == [filename |-> "", b64 |-> "valid", bytes |-> <<>>, file_type |-> <<>>]

\* what pypdf makes of the bytes: it raises, or the pages have no text, or
\* they have text
PdfOutcomes == {"raises", "no_text", "text"}

PdfUnavailable == <<"P", "D", "F", " ", "p", "r", "o", "c", "e", "s", "s", "i", "n", "g", " ",
    "n", "o", "t", " ", "a", "v", "a", "i", "l", "a", "b", "l", "e", " ", "-", " ", "i", "n",
    "s", "t", "a", "l", "l", " ", "p", "y", "p", "d", "f">>
PdfError == <<"E", "r", "r", "o", "r", " ", "e", "x", "t", "r", "a", "c", "t", "i", "n", "g",
    " ", "P", "D", "F", ":", " ", "E", "O", "F", " ", "m", "a", "r", "k", "e", "r", " ", "n",
    "o", "t", " ", "f", "o", "u", "n", "d">>
PdfNoText == <<"N", "o", " ", "r", "e", "a", "d", "a", "b", "l", "e", " ", "t", "e", "x", "t",
    " ", "c", "o", "u", "l", "d", " ", "b", "e", " ", "e", "x", "t", "r", "a", "c", "t", "e",
    "d", " ", "f", "r", "o", "m", " ", "t", "h", "e", " ", "P", "D", "F">>

\* extract_text_from_pdf_bytes for a file of one page
extract_text_from_pdf_bytes(available, outcome, page_text) ==
    IF ~available THEN PdfUnavailable
    ELSE IF outcome = "raises" THEN PdfError
    ELSE IF outcome = "no_text" \/ Strip(page_text) = <<>> THEN PdfNoText
    ELSE Strip(<< "\n" >> \o <<"-", "-", "-", " ", "P", "A", "G", "E", " ", "1", " ", "-", "-",
        "-">> \o << "\n" >> \o page_text \o << "\n" >>)

\* content.startswith("Error") or content.startswith("PDF processing not available")
extraction_failed(text) ==
    MatchAt(text, 1, <<"E", "r", "r", "o", "r">>) \/ MatchAt(text, 1, <<"P", "D", "F", " ", "p",
        "r", "o", "c", "e", "s", "s", "i", "n", "g", " ", "n", "o", "t", " ", "a", "v", "a",
        "i", "l", "a", "b", "l", "e">>)

\* fewer characters than this, after stripping, are insufficient content
MinContent == 100

\* mutant: the length of the content is not checked
insufficient_never(text) == FALSE

\* if not content or len(content.strip()) < 100
insufficient(text) == text = <<>> \/ Len(Strip(text)) < MinContent

\* raise HTTPException(status_code=..., detail=...)
HTTPException(status_code, template, chars) ==
    [http |-> TRUE, status_code |-> status_code,
     detail |-> [template |-> template, chars |-> chars]]

\* any other exception
OtherException == [http |-> FALSE]

InvalidBase64 == "Invalid base64 content: {e}"
InsufficientContent ==
    "Insufficient content extracted from {filename}. Please ensure the document contains substantial institutional content with verifiable claims."
NoClaimsFound ==
    "No verifiable institutional claims found in {filename}. Please ensure the document contains specific performance metrics, financial data, policy statements, or operational claims with quantifiable results."
AnalysisFailed == "Robust analysis failed: {e}"

RECURSIVE loop_claims(_, _, _)
\* claims after the first k iterations of the loop over the sentences
loop_claims(kept, k, source) ==
    IF k = 0 THEN <<>>
    ELSE loop_claims(kept, k - 1, source) \o sentence_claims(kept[k], k - 1, source)

\* the loop and the fallback of use_enhanced_pattern_analysis on the sentences kept
pattern_claims(kept, text, source) ==
    with_general(loop_claims(kept, Len(kept), source), text, source)

use_enhanced_pattern_analysis(text, source) ==
    pattern_claims(sentences_of(text), text, source)

\* category_mapping.get(category, "Operational")
map_pipeline_category(category) ==
    CASE category = CatFinancial -> "Financial"
      [] category = CatOperational -> "Operational"
      [] category = CatLegal -> "Legal & Compliance"
      [] category = CatESG -> "ESG"
      [] category = <<"E", "S", "G">> -> "ESG"
      [] OTHER -> "Operational"

\* mutant: the verdict of the pipeline is passed on as it is
map_pipeline_verdict_unmapped(verdict) == verdict

\* verdict_mapping.get(verdict, "Unsupported")
map_pipeline_verdict(verdict) ==
    CASE verdict = "Confirmed" -> "Confirmed"
      [] verdict = "Plausible" -> "Supported"
      [] verdict = "Contradicted" -> "Contradicted"
      [] verdict = "Insufficient Evidence" -> "Unverifiable"
      [] verdict = "Unsupported" -> "Unsupported"
      [] OTHER -> "Unsupported"

\* the dict enhance_pipeline_claim_with_trust_score builds from a claim of
\* the pipeline
enhance_pipeline_claim_with_trust_score(claim_data) ==
    [claim_text |-> claim_data.claim_text,
     category |-> IF "category" \in DOMAIN claim_data
                  THEN map_pipeline_category(claim_data.category) ELSE "Operational",
     verdict |-> IF "verdict" \in DOMAIN claim_data
                 THEN map_pipeline_verdict(claim_data.verdict) ELSE "Unsupported",
     source_context |-> claim_data.source_context,
     metadata |-> claim_data.metadata]

\* a claim of the pipeline, processed with the given outcome
pipeline_claim(n, out) ==
    processed(<<>>, chunk_claims(1, 1, n - 1, "tmp.txt")[1], out)[1]

\* answers of the model to the evaluation prompt of a claim with evidence: a
\* verdict of the prompt, a verdict of its own, an object without a verdict
\* or with a category of its own, an empty array, and text that is no JSON
AnsweredOutcomes ==
    { [raises |-> "none", category_response |-> CatFinancial,
       stored |-> SomeEvidence, evaluation |-> answer] :
         answer \in
           { "{\"verdict\": \"Plausible\", \"evidence_summary\": \"s\", \"verdict_reasoning\": \"r\"}",
             "{\"verdict\": \"Likely True\", \"evidence_summary\": \"s\", \"verdict_reasoning\": \"r\"}",
             "{\"evidence_summary\": \"s\", \"verdict_reasoning\": \"r\"}",
             "{\"verdict\": \"Plausible\", \"category\": \"Tax\"}",
             "[]",
             "The claim is confirmed by the evidence." } }

\* what pipeline.run_pipeline does for use_full_pipeline_analysis: it
\* returns an error dict or a report, or the call (or writing the temporary
\* file before it) raises
PipelineResults ==
    { [raises |-> TRUE, value |-> [error |-> "{e}"]],
      [raises |-> FALSE, value |-> [error |-> "Pipeline error: {e}"]],
      [raises |-> FALSE, value |-> [error |-> "No claims found in document", claims |-> <<>>]] }
    \cup { [raises |-> FALSE, value |-> report_of(<<pipeline_claim(1, out)>>, "tmp.txt")] :
              out \in ClaimOutcomes \cup AnsweredOutcomes }

\* use_full_pipeline_analysis, given what run_pipeline did and what the
\* pattern analysis of the content gives
use_full_pipeline_analysis(result, fallback) ==
    IF result.raises \/ "error" \in DOMAIN result.value THEN fallback
    ELSE IF "claims" \in DOMAIN result.value /\ Len(result.value.claims) > 0
         THEN [i \in DOMAIN result.value.claims |->
                  enhance_pipeline_claim_with_trust_score(result.value.claims[i])]
         ELSE fallback

\* the web sources search_web_evidence finds for a claim
WebSources == { <<>>, <<"https://example.org/report">> }

\* enhance_claims_with_web_evidence: every claim is kept and gets its
\* web_evidence
enhance_claims_with_web_evidence(found, sources) ==
    [i \in DOMAIN found |-> Update(found[i], [web_evidence |-> sources])]

\* robust_claim_extraction
robust_claim_extraction(full, result, text, source, sources) ==
    enhance_claims_with_web_evidence(
        IF full THEN use_full_pipeline_analysis(result, use_enhanced_pattern_analysis(text,
            source))
        ELSE use_enhanced_pattern_analysis(text, source),
        sources)

\* the except clauses of analyze: an HTTPException is raised again as it
\* is, any other exception becomes a 500
error_response(exception) ==
    IF exception.http
    THEN [status_code |-> exception.status_code, detail |-> exception.detail]
    ELSE [status_code |-> 500, detail |-> [template |-> AnalysisFailed, chars |-> <<>>]]

\* mutant: an empty claims list is answered like any other
no_claims_never(found) == FALSE

\* if not claims
no_claims(found) == found = <<>>

\* the JSON body of the 200 response
result_of(found, name, full) ==
    [summary |-> [total_claims |-> Len(found),
                  document_name |-> name,
                  analysis_mode |-> IF full THEN "full_llm_pipeline"
                                    ELSE "enhanced_pattern_matching"],
     claims |-> found]

NotResponded == [status_code |-> 0]

InitApi ==
    /\ server = "importing"
    /\ FULL_PIPELINE_AVAILABLE = FALSE
    /\ PDF_AVAILABLE = FALSE
    /\ apc = "idle"
    /\ request = NoRequest
    /\ analyze_content = <<>>
    /\ extraction_calls = 0
    /\ analyze_claims = <<>>
    /\ http_response = NotResponded

\* except ImportError
import_caught(outcome) == outcome = "ImportError"

\* the module is loaded: the imports at its top set the flags, and an
\* exception no except clause catches ends the load
ImportModules ==
    /\ server = "importing"
    /\ \E outcome \in ImportOutcomes, pdf \in BOOLEAN :
         IF outcome = "loaded" \/ import_caught(outcome)
         THEN /\ FULL_PIPELINE_AVAILABLE' = (outcome = "loaded")
              /\ PDF_AVAILABLE' = pdf
              /\ server' = "running"
         ELSE /\ server' = "crashed"
              /\ UNCHANGED <<FULL_PIPELINE_AVAILABLE, PDF_AVAILABLE>>
    /\ UNCHANGED <<apc, request, analyze_content, extraction_calls, analyze_claims,
                   http_response>>
    /\ UNCHANGED notApi

\* analyze up to the call of robust_claim_extraction: the content is decoded
\* (or extracted from the PDF) and its length checked
DecodeContent ==
    /\ server = "running"
    /\ apc = "idle"
    /\ \E req \in Requests, outcome \in PdfOutcomes :
         LET text == IF Lower(req.file_type) = <<"p", "d", "f">>
                     THEN extract_text_from_pdf_bytes(PDF_AVAILABLE, outcome,
                                                      decode_ignore(req.bytes))
                     ELSE decode_ignore(req.bytes)
         IN  /\ request' = req
             /\ IF req.b64 = "invalid"
                THEN /\ http_response' = error_response(HTTPException(400, InvalidBase64, <<>>))
                     /\ analyze_content' = analyze_content
                     /\ apc' = "responded"
                ELSE /\ analyze_content' = text
                     /\ IF Lower(req.file_type) = <<"p", "d", "f">> /\ extraction_failed(text)
                        THEN /\ http_response' =
                                    error_response(HTTPException(500, "{content}", text))
                             /\ apc' = "responded"
                        ELSE IF insufficient(text)
                        THEN /\ http_response' =
                                    error_response(HTTPException(400, InsufficientContent, <<>>))
                             /\ apc' = "responded"
                        ELSE /\ http_response' = http_response
                             /\ apc' = "extract"
    /\ UNCHANGED <<server, FULL_PIPELINE_AVAILABLE, PDF_AVAILABLE, extraction_calls,
                   analyze_claims>>
    /\ UNCHANGED notApi

\* claims = robust_claim_extraction(content, request.filename)
RobustClaimExtraction ==
    /\ apc = "extract"
    /\ \E result \in PipelineResults, sources \in WebSources :
         analyze_claims' = robust_claim_extraction(FULL_PIPELINE_AVAILABLE, result,
                                                   analyze_content, request.filename, sources)
    /\ extraction_calls' = extraction_calls + 1
    /\ apc' = "respond"
    /\ UNCHANGED <<server, FULL_PIPELINE_AVAILABLE, PDF_AVAILABLE, request, analyze_content,
                   http_response>>
    /\ UNCHANGED notApi

\* the rest of analyze: no claims is an error, otherwise the result is sent
Respond ==
    /\ apc = "respond"
    /\ http_response' =
          IF no_claims(analyze_claims)
          THEN error_response(HTTPException(400, NoClaimsFound, <<>>))
          ELSE [status_code |-> 200,
                content |-> result_of(analyze_claims, request.filename,
                                      FULL_PIPELINE_AVAILABLE)]
    /\ apc' = "responded"
    /\ UNCHANGED <<server, FULL_PIPELINE_AVAILABLE, PDF_AVAILABLE, request, analyze_content,
                   extraction_calls, analyze_claims>>
    /\ UNCHANGED notApi

\* an exception that is no HTTPException, raised by the extraction or while
\* the response is built: except Exception answers 500
UnexpectedError ==
    /\ apc \in {"extract", "respond"}
    /\ http_response' = error_response(OtherException)
    /\ apc' = "responded"
    /\ UNCHANGED <<server, FULL_PIPELINE_AVAILABLE, PDF_AVAILABLE, request, analyze_content,
                   extraction_calls, analyze_claims>>
    /\ UNCHANGED notApi

NextApi ==
    \/ ImportModules
    \/ DecodeContent
    \/ RobustClaimExtraction
    \/ Respond
    \/ UnexpectedError

(***************************************************************************)
(* Claim extraction (pipeline.py)                                          *)
(*                                                                         *)
(* One call of extract_claims_openrouter.  What the model answers for a    *)
(* chunk, and whether the call raises, is an input of each loop iteration. *)
(***************************************************************************)

\* chunk number i of a document: a loader that records no source leaves
\* the metadata without a 'source' key
chunk_of(i) ==
    IF i % 2 = 1
    THEN [page_content |-> <<"chunk", i>>, metadata |-> [source |-> "doc.txt"]]
    ELSE [page_content |-> <<"chunk", i>>, metadata |-> [page |-> i]]

\* what extraction_chain.invoke does for one chunk: raise, or return a text
ExtractOutcomes ==
    { [raises |-> TRUE,  text |-> <<>>],
      [raises |-> FALSE, text |-> <<>>],
      [raises |-> FALSE, text |-> <<"N", "o", " ", "c", "l", "a", "i", "m", "s", " ", "h", "e",
          "r", "e", ".">>],
      [raises |-> FALSE, text |-> <<"-", " ", "A", "\n", "-", " ", "B">>],
      [raises |-> FALSE, text |-> <<" ", " ", "-", " ", "A", " ", " ", "\n", "\n",
          "-", "\n", "-", " ", " ">>],
      [raises |-> FALSE, text |-> <<"C", "l", "a", "i", "m", "s", ":", "\n", "-", "A",
          "\n", "*", " ", "B", "\n", "-", "-", "C">>],
      [raises |-> FALSE, text |-> <<"A", " ", "-", " ", "B">>],
      [raises |-> FALSE, text |-> <<"-", " ", "A", " ", "-", " ", "B", "\n", "\t",
          "-", " ", "C">>] }

\* line.strip().startswith('-')
is_bullet(line) == Strip(line) # <<>> /\ Head(Strip(line)) = "-"

\* cleaned_claim = line.strip()[1:].strip()
cleaned_claim(line) == Strip(Tail(Strip(line)))

\* mutant: every non-empty line of the answer is taken as a claim
parsed_claims_any_line(response_text) ==
    SelectSeq(SplitOn(response_text, "\n"), LAMBDA line : Strip(line) # <<>>)

\* parsed_claims: the cleaned bullet lines of the answer that are not empty
parsed_claims(response_text) ==
    LET bullets == SelectSeq(SplitOn(response_text, "\n"),
                             LAMBDA line : is_bullet(line) /\ cleaned_claim(line) # <<>>)
    IN  [k \in DOMAIN bullets |-> cleaned_claim(bullets[k])]

\* chunk.metadata.get("source", "N/A")
source_of(metadata) == IF "source" \in DOMAIN metadata THEN metadata.source ELSE "N/A"

\* the dicts appended to all_claims for chunk number i (counted from 0)
claim_dicts(parsed, chunk, i) ==
    [k \in DOMAIN parsed |->
        [claim_text |-> parsed[k],
         source_context |-> chunk.page_content,
         metadata |-> [source |-> source_of(chunk.metadata), source_chunk_id |-> i]]]

\* all_claims after the loop body ran for chunk number i: an exception of
\* the model call is caught and the loop continues
after_chunk(found, outcome, chunk, i) ==
    IF outcome.raises THEN found
    ELSE found \o claim_dicts(parsed_claims(outcome.text), chunk, i)

InitExtract ==
    /\ xpc = "idle"
    /\ chunks_given = <<>>
    /\ chunk_i = 0
    /\ model_outcomes = <<>>
    /\ claims_so_far = <<>>

\* extract_claims_openrouter is called with the chunks of a document
CallExtract ==
    /\ xpc = "idle"
    /\ \E n \in 0..MaxChunks : chunks_given' = [i \in 1..n |-> chunk_of(i)]
    /\ xpc' = "loop"
    /\ UNCHANGED <<chunk_i, model_outcomes, claims_so_far>>
    /\ UNCHANGED notExtract

\* one iteration of the loop over the chunks
ExtractChunk ==
    /\ xpc = "loop"
    /\ chunk_i < Len(chunks_given)
    /\ \E outcome \in ExtractOutcomes :
         /\ model_outcomes' = Append(model_outcomes, outcome)
         /\ claims_so_far' = after_chunk(claims_so_far, outcome,
                                         chunks_given[chunk_i + 1], chunk_i)
    /\ chunk_i' = chunk_i + 1
    /\ UNCHANGED <<xpc, chunks_given>>
    /\ UNCHANGED notExtract

\* return all_claims
ReturnClaims ==
    /\ xpc = "loop"
    /\ chunk_i = Len(chunks_given)
    /\ xpc' = "returned"
    /\ UNCHANGED <<chunks_given, chunk_i, model_outcomes, claims_so_far>>
    /\ UNCHANGED notExtract

NextExtract ==
    \/ CallExtract
    \/ ExtractChunk
    \/ ReturnClaims

(***************************************************************************)
(* Rate limiting of the shared analyzer (university_reviews.py)            *)
(*                                                                         *)
(* university_analyzer is one object for the whole process.  A caller is a *)
(* thread inside search_university_reviews; before a network call it runs *)
(* rate_limit.  Time is counted in seconds; the clock never goes back, and *)
(* the time between the last statement of rate_limit and the call that     *)
(* follows it is below the clock's resolution.                             *)
(***************************************************************************)

\* self.min_delay
min_delay == 2

\* the last second of the clock that is looked at
MaxTime == 5

\* the number of outbound calls that are looked at
MaxCalls == 2

\* the places of the analyzer that make a network call: the search queries
\* of the ranking lookup and of its alternative, of the platform, social
\* media and news phases, and the fetch of a review page
CallSites == {"nirf", "alternative", "platforms", "scrape", "social", "news"}

\* mutant: the review-page fetch is made without rate_limit
rate_limited_searches_only(site) == site # "scrape"

\* self.rate_limit() is the statement before the call
rate_limited(site) ==
    site \in {"nirf", "alternative", "platforms", "scrape", "social", "news"}

\* time_since_last = current_time - self.last_request_time
time_since_last(current, last) == current - last

\* mutant: the remaining delay is not slept
sleep_time_none(current, last) == 0

\* sleep_time = self.min_delay - time_since_last
sleep_time(current, last) == min_delay - time_since_last(current, last)

\* the callers of the two-caller specification
Callers == {1, 2}

InitLimiter ==
    /\ now = min_delay
    /\ last_request_time = 0
    /\ lpc = [c \in Callers |-> "idle"]
    /\ call_site = [c \in Callers |-> "none"]
    /\ current_time = [c \in Callers |-> 0]
    /\ seen_last = [c \in Callers |-> 0]
    /\ read_no = [c \in Callers |-> 0]
    /\ writes = 0
    /\ issued = <<>>

\* calls issued or under way
calls_begun == Len(issued) + Cardinality({c \in Callers : lpc[c] # "idle"})

\* caller c reaches one of the network calls
BeginCall(c) ==
    /\ lpc[c] = "idle"
    /\ calls_begun < MaxCalls
    /\ \E site \in CallSites :
         /\ call_site' = [call_site EXCEPT ![c] = site]
         /\ lpc' = [lpc EXCEPT ![c] = IF rate_limited(site) THEN "rate_limit" ELSE "call"]
    /\ UNCHANGED <<now, last_request_time, current_time, seen_last, read_no, writes, issued>>
    /\ UNCHANGED notLimiter

\* rate_limit: the clock and self.last_request_time are read and compared
ReadClock(c) ==
    /\ lpc[c] = "rate_limit"
    /\ current_time' = [current_time EXCEPT ![c] = now]
    /\ seen_last' = [seen_last EXCEPT ![c] = last_request_time]
    /\ read_no' = [read_no EXCEPT ![c] = writes]
    /\ lpc' = [lpc EXCEPT ![c] = IF time_since_last(now, last_request_time) < min_delay
                                 THEN "sleep" ELSE "write"]
    /\ UNCHANGED <<now, last_request_time, call_site, writes, issued>>
    /\ UNCHANGED notLimiter

\* rate_limit: time.sleep(sleep_time) returns, not before sleep_time is over
Sleep(c) ==
    /\ lpc[c] = "sleep"
    /\ now - current_time[c] >= sleep_time(current_time[c], seen_last[c])
    /\ lpc' = [lpc EXCEPT ![c] = "write"]
    /\ UNCHANGED <<now, last_request_time, call_site, current_time, seen_last, read_no,
                   writes, issued>>
    /\ UNCHANGED notLimiter

\* rate_limit writes self.last_request_time and returns, and the call is
\* issued; a call without rate_limit is issued as it is.  The caller's
\* locals are gone when it is back at idle.
WriteAndCall(c) ==
    /\ lpc[c] \in {"write", "call"}
    /\ IF lpc[c] = "write"
       THEN /\ last_request_time' = now
            /\ writes' = writes + 1
       ELSE UNCHANGED <<last_request_time, writes>>
    /\ issued' = Append(issued, [caller |-> c, time |-> now, limited |-> lpc[c] = "write",
                                 read_no |-> read_no[c], write_no |-> writes + 1])
    /\ lpc' = [lpc EXCEPT ![c] = "idle"]
    /\ call_site' = [call_site EXCEPT ![c] = "none"]
    /\ current_time' = [current_time EXCEPT ![c] = 0]
    /\ seen_last' = [seen_last EXCEPT ![c] = 0]
    /\ read_no' = [read_no EXCEPT ![c] = 0]
    /\ UNCHANGED now
    /\ UNCHANGED notLimiter

\* a second passes
Tick ==
    /\ now < MaxTime
    /\ now' = now + 1
    /\ UNCHANGED <<last_request_time, lpc, call_site, current_time, seen_last, read_no,
                   writes, issued>>
    /\ UNCHANGED notLimiter

\* one thread uses the analyzer
NextLimiter ==
    \/ BeginCall(1)
    \/ ReadClock(1)
    \/ Sleep(1)
    \/ WriteAndCall(1)
    \/ Tick

\* two threads use the analyzer
NextShared ==
    \/ \E c \in Callers : BeginCall(c)
    \/ \E c \in Callers : ReadClock(c)
    \/ \E c \in Callers : Sleep(c)
    \/ \E c \in Callers : WriteAndCall(c)
    \/ Tick

(***************************************************************************)
(* Specifications                                                          *)
(***************************************************************************)

\* the pipeline before any claim is processed, with no local corpus
IdlePipeline == InitPipeline /\ evidence_chunks = <<>>

\* the review analyzer before any call, with its search package imported
IdleReviews == InitReviews /\ WEB_SEARCH_AVAILABLE

\* the components added after the first six, before any call
IdleOthers == InitExtract /\ InitLimiter

\* the trust scorer on its own: no claim is in the pipeline, no search and
\* no detection runs
StartTrust ==
    InitTrust /\ IdlePipeline /\ IdleReviews /\ InitDetector /\ InitRun /\ InitApi /\ IdleOthers

SpecTrust == StartTrust /\ [][NextTrust]_vars

\* the pipeline stages on their own
StartPipeline ==
    InitPipeline /\ InitTrust /\ IdleReviews /\ InitDetector /\ InitRun /\ InitApi /\ IdleOthers

SpecPipeline == StartPipeline /\ [][NextPipeline]_vars

\* one call of search_university_reviews on its own
StartReviews ==
    InitReviews /\ InitTrust /\ IdlePipeline /\ InitDetector /\ InitRun /\ InitApi /\ IdleOthers

SpecReviews == StartReviews /\ [][NextReviews]_vars

\* one call of use_enhanced_pattern_analysis on its own
StartDetector ==
    InitDetector /\ InitTrust /\ IdlePipeline /\ IdleReviews /\ InitRun /\ InitApi /\ IdleOthers

SpecDetector == StartDetector /\ [][NextDetector]_vars

\* one call of run_pipeline on its own
StartRun ==
    InitRun /\ InitTrust /\ IdlePipeline /\ IdleReviews /\ InitDetector /\ InitApi /\ IdleOthers

SpecRun == StartRun /\ [][NextRun]_vars

\* the server's start and one POST /analyze on their own
StartApi ==
    InitApi /\ InitTrust /\ IdlePipeline /\ IdleReviews /\ InitDetector /\ InitRun /\ IdleOthers

SpecApi == StartApi /\ [][NextApi]_vars

\* one call of extract_claims_openrouter on its own
StartExtract ==
    /\ InitExtract /\ InitTrust /\ IdlePipeline /\ IdleReviews /\ InitDetector /\ InitRun
    /\ InitApi /\ InitLimiter

SpecExtract == StartExtract /\ [][NextExtract]_vars

\* the shared analyzer's rate limiter, used by one thread and by two
StartLimiter ==
    /\ InitLimiter /\ InitTrust /\ IdlePipeline /\ IdleReviews /\ InitDetector /\ InitRun
    /\ InitApi /\ InitExtract

SpecLimiter == StartLimiter /\ [][NextLimiter]_vars

SpecShared == StartLimiter /\ [][NextShared]_vars

(***************************************************************************)
(* Claims about the trust scorer                                           *)
(***************************************************************************)

FactorNames ==
    {"evidence_quality", "specificity", "verdict_confidence", "source_credibility",
     "category_bonus"}

\* C1: every trust score handed back is an integer in 15..95: the value
\* returned by calculate_sophisticated_trust_score and by
\* calculate_pattern_based_trust_score (their exception defaults included)
\* and the trustScore of the record enhance_pipeline_claim_with_trust_score
\* returns (its fallback record included).
C1_TrustScoreInRange ==
    /\ tpc \in {"enhance", "returned"} => trust_score \in 15..95
    /\ tpc = "returned" => trustScore \in 15..95

\* C1 witness: a sophisticated score whose sum exceeded 95 was returned
C1_Witness ==
    /\ tpc = "returned"
    /\ DOMAIN breakdown = FactorNames
    /\ score > 95
    /\ trustScore = 95

\* C2: each of the five sub-scores is an integer within its own cap, and the
\* score returned equals their sum clamped to 15..95.
C2_SubScoresCapped ==
    /\ "evidence_quality" \in DOMAIN breakdown => breakdown["evidence_quality"] \in 0..30
    /\ "specificity" \in DOMAIN breakdown => breakdown["specificity"] \in 0..25
    /\ "verdict_confidence" \in DOMAIN breakdown => breakdown["verdict_confidence"] \in 0..20
    /\ "source_credibility" \in DOMAIN breakdown => breakdown["source_credibility"] \in 0..15
    /\ "category_bonus" \in DOMAIN breakdown => breakdown["category_bonus"] \in 0..10
    /\ DOMAIN breakdown = FactorNames =>
         LET sum == breakdown["evidence_quality"] + breakdown["specificity"]
                    + breakdown["verdict_confidence"] + breakdown["source_credibility"]
                    + breakdown["category_bonus"]
         IN  trust_score = (IF sum < 15 THEN 15 ELSE IF sum > 95 THEN 95 ELSE sum)

\* C2 witness: a score was returned for evidence whose points exceed the cap
C2_Witness ==
    /\ tpc = "returned"
    /\ DOMAIN breakdown = FactorNames
    /\ breakdown["evidence_quality"] = 30
    /\ breakdown["specificity"] = 25
    /\ breakdown["category_bonus"] = 0
    /\ trust_score = breakdown["verdict_confidence"] + breakdown["source_credibility"] + 55

(***************************************************************************)
(* Claims about the pipeline stages                                        *)
(***************************************************************************)

\* C3: the category classify_claim_type_openrouter stores is one of the four
\* fixed strings whatever the model answered; it is the stripped answer when
\* that is one of the four, and "Operational" otherwise.
C3_CategoryIsValid ==
    ppc = "classified" =>
        /\ claim["category"] \in {CatFinancial, CatOperational, CatLegal, CatESG}
        /\ LET answer == Strip(llm_response)
           IN  claim["category"] =
                   IF answer \in {CatFinancial, CatOperational, CatLegal, CatESG}
                   THEN answer ELSE CatOperational

\* C3 witness: an answer that is none of the four strings was classified
C3_Witness ==
    /\ ppc = "classified"
    /\ llm_response # <<>>
    /\ Strip(llm_response) \notin {CatFinancial, CatOperational, CatLegal, CatESG}
    /\ claim["category"] = CatOperational

\* C4: after evaluate_claim_openrouter ran on a non-empty evidence list, the
\* verdict is 'Confirmed', 'Plausible', 'Contradicted', 'Insufficient
\* Evidence' or 'Evaluation Error', whatever the model answered.
C4_VerdictIsEnumerated ==
    (ppc = "evaluated" /\ ~no_evidence(claim["evidence"])) =>
        /\ "verdict" \in DOMAIN claim
        /\ claim["verdict"] \in {"Confirmed", "Plausible", "Contradicted",
                                 "Insufficient Evidence", "Evaluation Error"}

\* every web search of the fallback came back empty, raised, or carried the
\* 'No good DuckDuckGo Search Result' text
OnlySentinels ==
    \A i \in DOMAIN web_results :
        \/ web_results[i].raises
        \/ web_results[i].text = <<>>
        \/ Contains(web_results[i].text, NoGoodResult)

\* C5: when no query matches the local corpus and every web search is empty,
\* raises or carries the sentinel, the evidence is the string 'No reliable
\* evidence was found.', and the evaluator then sets 'Insufficient Evidence'
\* without a model call (the two calls made are the classifier's and the
\* query generator's).
C5_NoEvidenceShortCircuit ==
    /\ ( /\ ppc = "retrieved"
         /\ all_local_results(parse_queries(llm_response), evidence_chunks) = <<>>
         /\ OnlySentinels )
       => claim["evidence"] = [kind |-> "str", value |-> "No reliable evidence was found."]
    /\ (ppc = "evaluated" /\ claim["evidence"].kind = "str")
       => /\ claim["verdict"] = "Insufficient Evidence"
          /\ llm_calls = 2

\* C5 witness: the web fallback met a sentinel result and the claim was
\* evaluated without evidence
C5_Witness ==
    /\ ppc = "evaluated"
    /\ claim["evidence"].kind = "str"
    /\ web_searches > 0
    /\ \E i \in DOMAIN web_results : Contains(web_results[i].text, NoGoodResult)
    /\ claim["verdict"] = "Insufficient Evidence"

(***************************************************************************)
(* Claims about the university review analyzer                             *)
(***************************************************************************)

\* the two totals of a result dict are the lengths of its two review lists
TotalsMatch(r) ==
    /\ r.review_summary.total_negative_reviews = Len(r.negative_reviews)
    /\ r.review_summary.total_positive_reviews = Len(r.positive_reviews)

\* C6: once analyze_real_review_patterns has run on the accumulated results,
\* empty lists included, total_negative_reviews = len(negative_reviews) and
\* total_positive_reviews = len(positive_reviews); the same holds of every
\* dict search_university_reviews returns, error dicts included.
C6_TotalsEqualLengths ==
    /\ rpc \in {"validate", "returned"} => TotalsMatch(results)
    /\ rpc \in {"returned", "returned_error"} => TotalsMatch(returned)

\* C6 witness: a result with reviews in both lists was analysed and returned
C6_Witness ==
    /\ rpc = "returned"
    /\ Len(returned.negative_reviews) >= 1
    /\ Len(returned.positive_reviews) >= 1
    /\ returned.review_summary.total_negative_reviews >= 1
    /\ returned.review_summary.total_positive_reviews >= 1

\* C7: when the four phases and the analysis have completed, the returned
\* search_status is 'no_data_found' exactly when both review lists are
\* empty, and 'success' otherwise.
C7_StatusReflectsData ==
    rpc = "returned" =>
        LET empty == returned.negative_reviews = <<>> /\ returned.positive_reviews = <<>>
        IN  /\ (returned.search_status = "no_data_found") <=> empty
            /\ ~empty => returned.search_status = "success"

\* C7 witness: a search whose queries raised and found nothing was returned
\* with status 'no_data_found'
C7_Witness ==
    /\ rpc = "returned"
    /\ returned.negative_reviews = <<>>
    /\ returned.positive_reviews = <<>>
    /\ returned.debug_info.errors # <<>>
    /\ returned.search_status = "no_data_found"

\* C8: every dict search_university_reviews returns, the ones of the
\* dependency-unavailable and critical-error paths included, has a
\* nirf_ranking that is a dict with a 'verified' key, and has the
\* negative_reviews and sources lists.
C8_RankingIsRecord ==
    rpc \in {"returned", "returned_error"} =>
        /\ returned.nirf_ranking.type = "dict"
        /\ "verified" \in DOMAIN returned.nirf_ranking
        /\ {"negative_reviews", "sources"} \subseteq DOMAIN returned

(***************************************************************************)
(* Claims about the pattern-based detector                                 *)
(***************************************************************************)

\* a revenue_growth claim whose captured value is 75% and whose verdict is
\* 'Contradicted'
IsRevenueGrowth75(c) ==
    /\ c.metadata.claim_type = "revenue_growth"
    /\ c.metadata.extracted_value = [kind |-> "str", value |-> <<"7", "5", "%">>]
    /\ float_of(c.metadata.extracted_value.value) = [ok |-> TRUE, whole |-> 75,
        fraction |-> FALSE]
    /\ c.verdict = "Contradicted"

\* C10 as stated: run on "Revenue increased by 75% this quarter." the
\* detector returns a claim that matched the revenue_growth rule, with the
\* extracted value 75 and the verdict 'Contradicted'.
C10_ScenarioYieldsClaim ==
    (dpc = "returned" /\ content = ScenarioSentence) =>
        \E i \in DOMAIN claims : IsRevenueGrowth75(claims[i])

\* C10 amended: run on "Revenue increased by 75% this quarter compared to
\* last year.", a sentence of at least 40 characters, the detector returns
\* exactly one claim: it matched the revenue_growth rule, its extracted value
\* is '75%' (the number 75) and its verdict is 'Contradicted'; run on
\* "Revenue increased by 75% this quarter.", whose sentence has 37
\* characters, it returns no claim.
C10_LongEnoughSentenceYieldsClaim ==
    dpc = "returned" =>
        /\ content = LongerSentence =>
              /\ Len(claims) = 1
              /\ IsRevenueGrowth75(claims[1])
              /\ claims[1].claim_text = SubSeq(LongerSentence, 1, Len(LongerSentence) - 1)
              /\ claims[1].metadata.source_chunk_id = 0
        /\ content = ScenarioSentence => claims = <<>>

\* C10 witness: the detector returned the Contradicted revenue_growth claim
\* of the longer sentence
C10_Witness ==
    /\ dpc = "returned"
    /\ content = LongerSentence
    /\ Len(sentences) = 1
    /\ next_sentence = 1
    /\ Len(claims) = 1
    /\ claims[1].verdict = "Contradicted"
    /\ claims[1].metadata.claim_type = "revenue_growth"

\* position of the carbon_reduction rule in claim_patterns
CarbonRule == Least({r \in DOMAIN claim_patterns :
                        claim_patterns[r].claim_type = "carbon_reduction"})

\* C11: run on "Carbon emissions were reduced by 40% through new
\* initiatives." the detector returns a claim that matched the
\* carbon_reduction rule, no earlier rule of the list matching the sentence,
\* with the extracted value 40 and the verdict 'Supported'.
C11_CarbonScenario ==
    (dpc = "returned" /\ content = CarbonSentence) =>
        /\ Len(claims) = 1
        /\ claims[1].metadata.claim_type = "carbon_reduction"
        /\ claims[1].category = "ESG"
        /\ \A r \in 1..(CarbonRule - 1) :
              ~re_search(claim_patterns[r], Lower(sentences[1])).matched
        /\ re_search(claim_patterns[CarbonRule], Lower(sentences[1])).matched
        /\ claims[1].metadata.extracted_value = [kind |-> "str", value |-> <<"4", "0", "%">>]
        /\ float_of(claims[1].metadata.extracted_value.value)
               = [ok |-> TRUE, whole |-> 40, fraction |-> FALSE]
        /\ claims[1].verdict = "Supported"

\* C11 witness: the detector returned the Supported carbon_reduction claim
C11_Witness ==
    /\ dpc = "returned"
    /\ content = CarbonSentence
    /\ Len(sentences) = 1
    /\ Len(claims) = 1
    /\ claims[1].metadata.claim_type = "carbon_reduction"
    /\ claims[1].verdict = "Supported"

(***************************************************************************)
(* Claims about the API server                                             *)
(***************************************************************************)

\* the request was decoded, and for a PDF the extractor did not hand back
\* one of its failure messages (those are answered with a 500)
ContentObtained ==
    /\ apc # "idle"
    /\ request.b64 = "valid"
    /\ ~(Lower(request.file_type) = <<"p", "d", "f">> /\ analyze_content \in {PdfUnavailable,
        PdfError})

\* C12: a POST /analyze whose decoded, or PDF-extracted, content has fewer
\* than 100 characters after stripping whitespace is answered with an HTTP
\* 400 whose detail says insufficient content was extracted; claim
\* extraction is never started for it and no claims are produced.
C12_ShortContentRejected ==
    (ContentObtained /\ Len(Strip(analyze_content)) < 100) =>
        /\ apc = "responded"
        /\ http_response.status_code = 400
        /\ http_response.detail.template = InsufficientContent
        /\ extraction_calls = 0
        /\ analyze_claims = <<>>

\* C12 witness: content of more than 100 characters, fewer than 100 of them
\* once the surrounding whitespace is stripped, was answered with the 400
C12_Witness ==
    /\ apc = "responded"
    /\ ContentObtained
    /\ Len(analyze_content) > 100
    /\ Len(Strip(analyze_content)) < 100
    /\ http_response.status_code = 400
    /\ http_response.detail.template = InsufficientContent

\* C13: POST /analyze never answers 200 with zero claims: when the claim
\* extraction, with all its fallbacks, yields no claims the response is an
\* HTTP error with a detail string; every 200 response has a non-empty claims
\* list and summary.total_claims equal to its length; an HTTPException raised
\* inside the handler keeps its status code and is not rewrapped as a 500.
C13_NoEmptySuccess ==
    apc = "responded" =>
        /\ http_response.status_code \in {200, 400, 500}
        /\ http_response.status_code = 200 =>
              /\ http_response.content.claims # <<>>
              /\ http_response.content.claims = analyze_claims
              /\ http_response.content.summary.total_claims
                     = Len(http_response.content.claims)
        /\ (extraction_calls = 1 /\ analyze_claims = <<>>) =>
              /\ http_response.status_code \in {400, 500}
              /\ http_response.detail.template \in {NoClaimsFound, AnalysisFailed}
        /\ http_response.status_code # 200 =>
              /\ http_response.detail.template
                     \in {InvalidBase64, InsufficientContent, NoClaimsFound} =>
                     http_response.status_code = 400
              /\ http_response.detail.template = "{content}" =>
                     /\ http_response.status_code = 500
                     /\ http_response.detail.chars = analyze_content
              /\ http_response.status_code = 500 =>
                     http_response.detail.template \in {AnalysisFailed, "{content}"}

\* C13 witness: the pipeline reported an error, the pattern analysis of the
\* content found nothing either, and the request was answered with the 400
\* for no claims
C13_Witness ==
    /\ apc = "responded"
    /\ FULL_PIPELINE_AVAILABLE
    /\ extraction_calls = 1
    /\ analyze_claims = <<>>
    /\ http_response.status_code = 400
    /\ http_response.detail.template = NoClaimsFound

(***************************************************************************)
(* Claims about the pipeline stages, continued                             *)
(***************************************************************************)

\* C14: when the model's answer to the evaluation prompt is no JSON, or is
\* JSON that dict.update refuses, evaluate_claim_openrouter does not raise:
\* the verdict is 'Evaluation Error', the evidence_summary 'Failed to parse
\* model JSON.' and the verdict_reasoning the raw answer, character for
\* character.
C14_ParseFailureDegrades ==
    ( /\ ppc = "evaluated"
      /\ ~no_evidence(claim["evidence"])
      /\ json_loads(llm_response).kind \in {"invalid", "number"} )
    => /\ "error" \notin DOMAIN claim
       /\ claim["verdict"] = "Evaluation Error"
       /\ claim["evidence_summary"] = "Failed to parse model JSON."
       /\ claim["verdict_reasoning"] = llm_response

\* C14 witness: an answer that wraps its JSON in prose was evaluated
C14_Witness ==
    /\ ppc = "evaluated"
    /\ llm_response = "Here is the JSON: {\"verdict\": \"Confirmed\"}"
    /\ claim["verdict"] = "Evaluation Error"
    /\ claim["verdict_reasoning"] = "Here is the JSON: {\"verdict\": \"Confirmed\"}"

(***************************************************************************)
(* Claims about run_pipeline                                               *)
(***************************************************************************)

SameClaim(done, found) ==
    /\ done.source_context = found.source_context
    /\ done.metadata = found.metadata
    /\ done.claim_text \in {found.claim_text, "t"}

\* C16: run_pipeline drops no extracted claim: the report's claims list has
\* one entry per claim the extractor returned, in extraction order, and
\* summary.total_claims is that number; a claim for which classification,
\* retrieval or evaluation raised is kept with an 'error' field, and the
\* claims after it are still processed.
C16_NoClaimDropped ==
    /\ Len(processed_claims) <= Len(extracted)
    /\ \A k \in DOMAIN processed_claims :
          /\ SameClaim(processed_claims[k], extracted[k])
          /\ "error" \in DOMAIN processed_claims[k]
                \/ "verdict" \in DOMAIN processed_claims[k]
    /\ (run_pc = "returned" /\ extracted # <<>>) =>
          /\ "summary" \in DOMAIN run_result
          /\ run_result.claims = processed_claims
          /\ Len(run_result.claims) = Len(extracted)
          /\ run_result.summary.total_claims = Len(extracted)

\* C16 witness: the first claim's processing raised, the second was
\* evaluated, and the report holds both
C16_Witness ==
    /\ run_pc = "returned"
    /\ Len(extracted) >= 2
    /\ Len(run_result.claims) = Len(extracted)
    /\ "error" \in DOMAIN run_result.claims[1]
    /\ "verdict" \notin DOMAIN run_result.claims[1]
    /\ "verdict" \in DOMAIN run_result.claims[2]
    /\ run_result.summary.total_claims = Len(extracted)

(***************************************************************************)
(* Claims about the stages after the extractor                             *)
(***************************************************************************)

\* C17: the stages after the extractor change a claim only by adding fields:
\* whatever the model returns, no step of classify_claim_type_openrouter,
\* retrieve_evidence_openrouter or evaluate_claim_openrouter removes a field
\* of the claim or changes the value of a field it already has (claim_text,
\* source_context, metadata, and the category and evidence of earlier stages).
C17_StagesOnlyAdd ==
    [][\A field \in DOMAIN claim :
          /\ field \in DOMAIN claim'
          /\ claim'[field] = claim[field]]_vars

\* C18: when loading the model-driven pipeline module raises at startup
\* (the credential check or the construction of the model client fails),
\* the server still starts, with FULL_PIPELINE_AVAILABLE false, and /analyze
\* answers through the pattern-based detector: the start never fails, and
\* without the pipeline the claims of a request are the detector's.
C18_StartsWithoutPipeline ==
    /\ server \in {"importing", "running"}
    /\ (apc = "respond" /\ ~FULL_PIPELINE_AVAILABLE) =>
          \E sources \in WebSources :
             analyze_claims =
                enhance_claims_with_web_evidence(
                    use_enhanced_pattern_analysis(analyze_content, request.filename), sources)

\* number of positions of seq that hold x
Occurrences(seq, x) == Cardinality({i \in DOMAIN seq : seq[i] = x})

\* the items retrieve_evidence_openrouter collected for the queries of the
\* model's answer: the local matches, or without any the usable web results
collected_items(queries, local, outcomes) ==
    IF local # <<>> THEN local ELSE all_web_results(queries, outcomes)

collected_for(queries, chunks, outcomes) ==
    collected_items(queries, all_local_results(queries, chunks), outcomes)

\* the evidence field ev is the top of the collected items
top_of_collected(ev, collected) ==
    /\ ev.kind \in {"str", "list"}
    /\ ev.kind = "str" <=> collected = <<>>
    /\ ev.kind = "str" => ev.value = "No reliable evidence was found."
    /\ ev.kind = "list" =>
          /\ ev.items # <<>>
          /\ Len(ev.items) <= 3
          /\ \A i \in DOMAIN ev.items :
                Occurrences(ev.items, ev.items[i]) <= Occurrences(collected, ev.items[i])
          /\ \A i \in DOMAIN ev.items : \A j \in DOMAIN ev.items :
                i < j => ev.items[i].relevance_score >= ev.items[j].relevance_score
          /\ \A c \in DOMAIN collected :
                Occurrences(ev.items, collected[c]) < Occurrences(collected, collected[c])
                   => \A i \in DOMAIN ev.items :
                         collected[c].relevance_score <= ev.items[i].relevance_score

\* C19: after retrieve_evidence_openrouter the evidence field is the sentinel
\* string exactly when nothing was collected, and otherwise a non-empty list
\* of at most 3 of the collected items, in non-increasing order of
\* relevance_score, such that no collected item left out has a strictly
\* higher relevance_score than a kept one.
C19_EvidenceIsTopThree ==
    ppc = "retrieved" =>
       top_of_collected(claim["evidence"],
                        collected_for(parse_queries(llm_response), evidence_chunks,
                            web_results))

\* C19 witness: four items were collected with different scores, three are
\* kept and the best comes first
C19_Witness ==
    /\ ppc = "retrieved"
    /\ claim["evidence"].kind = "list"
    /\ Len(collected_for(parse_queries(llm_response), evidence_chunks, web_results)) > 3
    /\ Len(claim["evidence"].items) = 3
    /\ claim["evidence"].items[1].relevance_score > claim["evidence"].items[3].relevance_score

\* some generated query has a local-corpus chunk with score > 0
matched_locally(queries, chunks) ==
    \E q \in DOMAIN queries : \E c \in DOMAIN chunks : chunk_score(queries[q], chunks[c]) > 0

\* item is what the web search returned for one of the queries: a text that
\* was returned (not raised), is not empty and has no 'no results' sentinel
from_web_search(item, queries, outcomes) ==
    /\ item.source = "Web"
    /\ \E q \in DOMAIN queries :
          /\ item.source_query = queries[q]
          /\ ~outcomes[q].raises
          /\ outcomes[q].text = item.retrieved_content
          /\ item.retrieved_content # <<>>
          /\ ~Contains(item.retrieved_content, NoGoodResult)

\* item is a chunk of the local corpus that scored for its query
from_local_corpus(item, chunks) ==
    /\ item.relevance_score >= 1
    /\ \E c \in DOMAIN chunks :
          /\ item.source = chunks[c].source_paper
          /\ item.retrieved_content = chunks[c].page_content

local_or_web(ev, queries, chunks, outcomes, calls) ==
    IF matched_locally(queries, chunks)
    THEN /\ calls = 0
         /\ outcomes = <<>>
         /\ ev.kind = "list"
         /\ \A i \in DOMAIN ev.items : from_local_corpus(ev.items[i], chunks)
    ELSE /\ calls = Len(queries)
         /\ ev.kind = "list" =>
               /\ \A i \in DOMAIN ev.items : from_web_search(ev.items[i], queries, outcomes)
               /\ Len(ev.items) <=
                     Cardinality({q \in DOMAIN queries :
                                     /\ ~outcomes[q].raises
                                     /\ ~Contains(outcomes[q].text, NoGoodResult)})

\* C20: retrieve_evidence_openrouter calls the web search only when no
\* generated query had a local-corpus chunk with score > 0: with a local
\* match no web search is made and every evidence item is a local chunk with
\* relevance_score >= 1; in the fallback one search is made per query, and a
\* result with the 'no results' sentinel or a search that raises contributes
\* no item.
C20_WebOnlyAsFallback ==
    ppc = "retrieved" =>
       local_or_web(claim["evidence"], parse_queries(llm_response), evidence_chunks,
                    web_results, web_searches)

\* C20 witness: nothing matched locally, two searches were made, one returned
\* the sentinel text and the other a usable text, and one item is kept
C20_Witness ==
    /\ ppc = "retrieved"
    /\ evidence_chunks # <<>>
    /\ ~matched_locally(parse_queries(llm_response), evidence_chunks)
    /\ web_searches = 2
    /\ \E q \in DOMAIN web_results : Contains(web_results[q].text, NoGoodResult)
    /\ claim["evidence"].kind = "list"
    /\ Len(claim["evidence"].items) = 1
    /\ claim["evidence"].items[1].source = "Web"

(***************************************************************************)
(* Claims about extract_claims_openrouter                                  *)
(***************************************************************************)

\* the texts of the bullet lines of a model answer that have a text after
\* the hyphen, in the order of the lines
bullet_texts(text) ==
    LET lines == SplitOn(text, "\n")
        kept == SelectSeq([n \in DOMAIN lines |-> n],
                          LAMBDA n : /\ LStrip(lines[n]) # <<>>
                                     /\ Head(LStrip(lines[n])) = "-"
                                     /\ Strip(Tail(LStrip(lines[n]))) # <<>>)
    IN  [k \in DOMAIN kept |-> Strip(Tail(LStrip(lines[kept[k]])))]

\* the texts of the claims of found tagged with chunk index i
texts_tagged(found, i) ==
    LET mine == SelectSeq(found, LAMBDA c : c.metadata.source_chunk_id = i)
    IN  [k \in DOMAIN mine |-> mine[k].claim_text]

\* C21: extract_claims_openrouter returns the concatenation, in chunk order,
\* of the non-empty bullet lines of each chunk's model answer, each claim
\* tagged with the index of its chunk; a chunk whose model call raises or
\* whose answer has no bullet line contributes no claim, and the chunks
\* after it are still gone through.
C21_ClaimsAreBulletLines ==
    xpc = "returned" =>
       /\ Len(model_outcomes) = Len(chunks_given)
       /\ \A k \in DOMAIN claims_so_far :
             /\ claims_so_far[k].metadata.source_chunk_id \in 0..(Len(chunks_given) - 1)
             /\ claims_so_far[k].source_context =
                   chunks_given[claims_so_far[k].metadata.source_chunk_id + 1].page_content
             /\ k > 1 => claims_so_far[k - 1].metadata.source_chunk_id
                            <= claims_so_far[k].metadata.source_chunk_id
       /\ \A i \in DOMAIN chunks_given :
             texts_tagged(claims_so_far, i - 1) =
                IF model_outcomes[i].raises THEN <<>>
                ELSE bullet_texts(model_outcomes[i].text)

\* C21 witness: the call for the first chunk raised, the answer for the
\* second had an empty bullet and one with a text, and the result is that
\* one claim tagged with chunk index 1
C21_Witness ==
    /\ xpc = "returned"
    /\ Len(chunks_given) = 2
    /\ model_outcomes[1].raises
    /\ model_outcomes[2].text = <<" ", " ", "-", " ", "A", " ", " ", "\n", "\n", "-",
        "\n", "-", " ", " ">>
    /\ claims_so_far = << [claim_text |-> <<"A">>, source_context |-> <<"chunk", 2>>,
                           metadata |-> [source |-> "N/A", source_chunk_id |-> 1]] >>

(***************************************************************************)
(* Claims about the review analyzer's phases                               *)
(***************************************************************************)

\* C22: in search_university_reviews every exception raised inside one of
\* the four search phases is caught, recorded as an entry of
\* debug_info.errors, and the later phases and the analysis still run: once
\* the ranking lookup has ended in one of its except branches (its dict
\* carries 'error'), debug_info.errors is not empty, in every later phase
\* and in the result.
C22_PhaseErrorsRecorded ==
    ( /\ rpc \in {"platforms", "social", "news", "analysis", "validate", "returned"}
      /\ "error" \in DOMAIN results.nirf_ranking )
       => results.debug_info.errors # <<>>

(***************************************************************************)
(* Claims about rate_limit                                                 *)
(***************************************************************************)

\* every call so far went through rate_limit, and two successive calls are
\* at least 2 seconds apart
calls_spaced ==
    /\ \A k \in DOMAIN issued : issued[k].limited
    /\ \A k \in DOMAIN issued : k > 1 => issued[k].time - issued[k - 1].time >= 2

\* C23: in a single-threaded run of the review analyzer every outbound
\* network call (the search queries of every phase and the fetch of a
\* review page) is preceded by rate_limit, any two successive outbound calls
\* are issued at least min_delay (2 seconds) apart, and last_request_time
\* never decreases.
C23_CallsAreSpaced ==
    /\ []calls_spaced
    /\ [][last_request_time' >= last_request_time]_vars

\* C23 witness: the second call was begun early, rate_limit slept, and the
\* call went out exactly 2 seconds after the first
C23_Witness ==
    /\ Len(issued) = 2
    /\ issued[1].limited /\ issued[2].limited
    /\ issued[2].time - issued[1].time = 2
    /\ last_request_time = issued[2].time
    /\ last_request_time > 2

\* C28: the minimum delay is not enforced across concurrent callers of the
\* shared analyzer: rate_limit keeps two calls min_delay (2 seconds) apart
\* only when the later caller read last_request_time after the earlier one
\* wrote it.  When both callers read it before either writes (the witness),
\* the two calls go out less than min_delay apart.
C28_DelayOnlyWithoutOverlap ==
    \A i \in DOMAIN issued : \A j \in DOMAIN issued :
       (i < j /\ issued[j].read_no >= issued[i].write_no)
          => issued[j].time - issued[i].time >= 2

\* C28 witness: two callers, both read last_request_time before the first
\* write, and their calls were issued less than 2 seconds apart
C28_Witness ==
    /\ Len(issued) = 2
    /\ issued[1].caller # issued[2].caller
    /\ issued[1].limited /\ issued[2].limited
    /\ issued[1].read_no < issued[1].write_no
    /\ issued[2].read_no < issued[1].write_no
    /\ issued[2].time - issued[1].time < 2

(***************************************************************************)
(* Claims about the order of the rules and the verdict thresholds          *)
(***************************************************************************)

\* the claim came from a rule, not from the general analysis
from_rule(c) == c.metadata.analysis_method = "enhanced_pattern_matching"

\* rule number r matches the lower-cased sentence
rule_matches(r, sentence) == re_search(claim_patterns[r], Lower(sentence)).matched

\* category, claim_type and confidence of c are those of the earliest rule
\* that matches the sentence
of_earliest_rule(c, sentence) ==
    \E r \in DOMAIN claim_patterns :
       /\ rule_matches(r, sentence)
       /\ \A e \in 1..(r - 1) : ~rule_matches(e, sentence)
       /\ c.category = claim_patterns[r].category
       /\ c.metadata.claim_type = claim_patterns[r].claim_type
       /\ c.metadata.confidence = claim_patterns[r].confidence

\* C24: in use_enhanced_pattern_analysis each sentence contributes at most
\* one claim, and that claim's category, claim_type and confidence are those
\* of the earliest rule of the ordered rule list whose regex matches the
\* lower-cased sentence; later rules are not consulted for that sentence.
C24_FirstMatchingRuleWins ==
    dpc = "returned" =>
       \A k \in DOMAIN claims :
          from_rule(claims[k]) =>
             /\ claims[k].metadata.source_chunk_id < Len(sentences)
             /\ \A j \in DOMAIN claims :
                   (j # k /\ from_rule(claims[j]))
                      => claims[j].metadata.source_chunk_id # claims[k].metadata.source_chunk_id
             /\ of_earliest_rule(claims[k], sentences[claims[k].metadata.source_chunk_id + 1])

\* C24 witness: a sentence that the governance rule and the later
\* risk_management rule both match gave one claim, of the governance rule
C24_Witness ==
    /\ dpc = "returned"
    /\ Len(sentences) = 1
    /\ Len(claims) = 1
    /\ claims[1].metadata.claim_type = "governance"
    /\ \E r \in DOMAIN claim_patterns :
          /\ claim_patterns[r].claim_type = "risk_management"
          /\ rule_matches(r, sentences[1])

\* the value limits of analyze_enhanced_verdict, by claim type
value_limits ==
    ("revenue_growth" :> 60) @@ ("profit_growth" :> 150) @@ ("efficiency_improvement" :> 50)
    @@ ("customer_satisfaction" :> 99) @@ ("productivity" :> 80)
    @@ ("carbon_reduction" :> 90) @@ ("renewable_energy" :> 100)

\* the rule of the claim captured a number above the limit of its claim type
over_limit(c) ==
    /\ from_rule(c)
    /\ c.metadata.claim_type \in DOMAIN value_limits
    /\ c.metadata.extracted_value.kind = "str"
    /\ float_of(c.metadata.extracted_value.value).ok
    /\ exceeds(float_of(c.metadata.extracted_value.value),
               value_limits[c.metadata.claim_type])

\* C25 as stated: a captured value above the limit of its claim type gives the
\* verdict 'Contradicted', whatever the text of the sentence
C25_OverLimitContradicted ==
    dpc = "returned" =>
        \A k \in DOMAIN claims : over_limit(claims[k]) => claims[k].verdict = "Contradicted"

\* the verdict of a value above its limit for a sentence text: the indicators
\* of the lowered text come first
over_limit_verdict(sentence_lower) ==
    IF any_in(sentence_lower, strong_verification) THEN "Confirmed"
    ELSE IF any_in(sentence_lower, contradiction_indicators) THEN "Contradicted"
    ELSE IF any_in(sentence_lower, uncertainty_indicators) THEN "Unverifiable"
    ELSE "Contradicted"

\* C25: a captured value above the limit of its claim type gives the verdict
\* 'Contradicted' when the lowered sentence holds no verification and no
\* uncertainty indicator; a verification indicator gives 'Confirmed', and an
\* uncertainty indicator without a contradiction indicator gives 'Unverifiable'
C25_OverLimitAfterIndicators ==
    dpc = "returned" =>
        \A k \in DOMAIN claims :
            over_limit(claims[k])
                => claims[k].verdict = over_limit_verdict(Lower(claims[k].claim_text))

\* a result with a value above its limit in a plain sentence, one in a
\* sentence that says 'around', and none that says 'verified'
C25_Witness ==
    /\ dpc = "returned"
    /\ Len(claims) = 2
    /\ \A k \in DOMAIN claims : over_limit(claims[k])
    /\ claims[1].verdict = "Contradicted"
    /\ claims[1].metadata.claim_type = "carbon_reduction"
    /\ claims[2].verdict = "Unverifiable"
    /\ claims[2].metadata.claim_type = "efficiency_improvement"

\* the claim synthesized for the document as a whole
is_generic(c) == c.metadata.analysis_method = "general_content_analysis"

\* a sentence the rule loop looks at matched one of the rules
some_sentence_matched ==
    \E i \in DOMAIN sentences :
        /\ Len(Strip(sentences[i])) >= MinClaimSentence
        /\ \E r \in DOMAIN claim_patterns : rule_matches(r, Strip(sentences[i]))

\* the content holds a percentage or an amount of money
has_quantity(text) ==
    \/ \E p \in DOMAIN text : percent_end(text, p) > 0
    \/ money_matches(Lower(text), 1) # <<>>

\* the content is long enough, names an institution and holds a quantity
calls_for_generic(text) ==
    /\ Len(text) > 200
    /\ \E k \in DOMAIN institutional_keywords : Contains(Lower(text), institutional_keywords[k])
    /\ has_quantity(text)

\* what C26 says of a result, given whether a sentence matched a rule
generic_only_alone(matched) ==
    /\ \A k \in DOMAIN claims : is_generic(claims[k]) \/ from_rule(claims[k])
    /\ (\E k \in DOMAIN claims : is_generic(claims[k])) => ~matched
    /\ matched => \A k \in DOMAIN claims : from_rule(claims[k])
    /\ ~matched =>
           IF calls_for_generic(content)
           THEN /\ Len(claims) = 1
                /\ is_generic(claims[1])
                /\ claims[1].verdict = "Unverifiable"
                /\ claims[1].metadata.source_chunk_id = 0
           ELSE claims = <<>>

occurrences_in(reviews, category) ==
    Cardinality(UNION {{<<i, j>> : j \in {n \in DOMAIN reviews[i].complaints :
                                            reviews[i].complaints[n] = category}} :
                       i \in DOMAIN reviews})

\* the categories that stand in the complaints lists of the reviews
categories_in(reviews) ==
    UNION {{reviews[i].complaints[j] : j \in DOMAIN reviews[i].complaints} :
           i \in DOMAIN reviews}

\* the list is a ranking of the categories of the reviews as C27 describes it
ranks_categories(listed, reviews) ==
    /\ Len(listed) <= 5
    /\ \A i, j \in DOMAIN listed : i < j =>
          /\ listed[i].category # listed[j].category
          /\ listed[i].frequency >= listed[j].frequency
    /\ \A i \in DOMAIN listed :
          listed[i].frequency = occurrences_in(reviews, listed[i].category)
    /\ \A category \in categories_in(reviews) :
          (\A i \in DOMAIN listed : listed[i].category # category)
              => \A i \in DOMAIN listed :
                    occurrences_in(reviews, category) <= listed[i].frequency

\* C27: after analyze_real_review_patterns on a result with reviews,
\* common_complaints (common_praises) has at most 5 entries of distinct
\* categories in order of non-increasing frequency, each frequency is the
\* number of occurrences of the category in the complaints lists of the
\* negative (positive) reviews, and no category left out is more frequent
\* than one that is listed
C27_CommonListsRankCategories ==
    /\ (rpc = "validate" /\ (results.negative_reviews # <<>> \/ results.positive_reviews # <<>>))
           => /\ ranks_categories(results.review_summary.common_complaints,
                                  results.negative_reviews)
              /\ ranks_categories(results.review_summary.common_praises,
                                  results.positive_reviews)
    /\ (rpc = "returned" /\ (returned.negative_reviews # <<>> \/ returned.positive_reviews # <<>>))
           => /\ ranks_categories(returned.review_summary.common_complaints,
                                  returned.negative_reviews)
              /\ ranks_categories(returned.review_summary.common_praises,
                                  returned.positive_reviews)

\* two negative reviews with six categories between them: five are listed,
\* the first more frequent than the last, and the sort changed the order
C27_Witness ==
    /\ rpc = "returned"
    /\ Len(returned.negative_reviews) = 2
    /\ Cardinality(categories_in(returned.negative_reviews)) = 6
    /\ Len(returned.review_summary.common_complaints) = 5
    /\ returned.review_summary.common_complaints[1].frequency = 2
    /\ returned.review_summary.common_complaints[5].frequency = 1
    /\ returned.review_summary.common_complaints
           # SubSeq(complaint_counts(all_complaints(returned.negative_reviews)), 1, 5)

\* the two review lists of a result dict are split by the negative label
split_by_negative(r) ==
    /\ \A i \in DOMAIN r.negative_reviews : r.negative_reviews[i].sentiment = "negative"
    /\ \A i \in DOMAIN r.positive_reviews :
          r.positive_reviews[i].sentiment \in {"positive", "neutral"}

\* C29: in every result of search_university_reviews, and in the results dict
\* after every phase, each record of negative_reviews has sentiment
\* 'negative' and no record of positive_reviews has it: a 'neutral' record
\* is stored in positive_reviews, whichever phase or scraper added it
C29_ListsSplitByNegativeLabel ==
    /\ rpc \in {"ranking", "platforms", "social", "news", "analysis", "validate", "returned"}
           => split_by_negative(results)
    /\ rpc \in {"returned", "returned_error"} => split_by_negative(returned)

\* a returned result with a negative record of one phase in negative_reviews
\* and a neutral record of another phase in positive_reviews
C29_Witness ==
    /\ rpc = "returned"
    /\ \E i \in DOMAIN returned.negative_reviews, j \in DOMAIN returned.positive_reviews :
          /\ returned.negative_reviews[i].sentiment = "negative"
          /\ returned.positive_reviews[j].sentiment = "neutral"
          /\ returned.negative_reviews[i].review_type
                 # returned.positive_reviews[j].review_type

(***************************************************************************)
(* Claims about the categories and verdicts of the claims returned         *)
(***************************************************************************)

\* C30: every claim robust_claim_extraction returns, by the pipeline, by the
\* rules or by a fallback from the one to the other, and whatever the model
\* answered, has one of the four categories and one of the five verdicts
C30_StandardCategoryAndVerdict ==
    apc \in {"respond", "responded"} /\ extraction_calls > 0 =>
        \A k \in DOMAIN analyze_claims :
            /\ analyze_claims[k].category
                   \in {"Financial", "Operational", "Legal & Compliance", "ESG"}
            /\ analyze_claims[k].verdict
                   \in {"Confirmed", "Supported", "Contradicted", "Unverifiable", "Unsupported"}

\* a claim of the pipeline whose verdict was missing, unknown or 'Evaluation
\* Error' was returned as 'Unsupported'
C30_Witness ==
    /\ apc = "respond"
    /\ FULL_PIPELINE_AVAILABLE
    /\ Len(analyze_claims) = 1
    /\ analyze_claims[1].verdict = "Unsupported"
    /\ analyze_claims[1].category = "Financial"
    /\ analyze_claims[1].metadata.source = "tmp.txt"

====
